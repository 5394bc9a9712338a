------------------------------ MODULE TtsText ------------------------------
(***************************************************************************)
(* The rules on the text of a submission (src/gateway/src/lib/tts-text.ts).   *)
(* A text is a sequence of code points, and of a code point only its class    *)
(* counts: "space", "bengali" (U+0980..U+09FF) or "other".                    *)
(***************************************************************************)
EXTENDS Integers, Sequences, FiniteSets

CONSTANT MaxTextLength   \* TTS_MAX_TEXT_LENGTH, in code points

ASSUME LengthAssumption == MaxTextLength \in Nat \ {0}

Classes == {"space", "bengali", "other"}

Places(text, classes) == {i \in DOMAIN text : text[i] \in classes}

\* bengaliRatio(text) < 0.5, of the code points that are not white space.
IsForeignWithSpaces(text) ==
  2 * Cardinality(Places(text, {"bengali", "space"})) < Len(text)

IsForeign(text) ==
  2 * Cardinality(Places(text, {"bengali"})) < Cardinality(Places(text, {"bengali", "other"}))

\* validateTtsText: the first rule that is broken.
Verdict(text) ==
  IF Places(text, {"bengali", "other"}) = {} THEN "TextEmpty"
  ELSE IF Len(text) > MaxTextLength THEN "TextTooLong"
  ELSE IF IsForeign(text) THEN "TextNotBengali"
  ELSE "OK"
=============================================================================
