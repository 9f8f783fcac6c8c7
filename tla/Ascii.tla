-------------------------------- MODULE Ascii --------------------------------
(***************************************************************************)
(* The character classes of src/src/command.c.  A few characters stand for *)
(* their class: "a" for the lower-case letters, with "A" its upper case;  *)
(* the others spell PACKAGE, PAK and ZIP.                                  *)
(***************************************************************************)
Alphas == {"a", "A", "b", "B"} \cup {"P", "A", "C", "K", "G", "E", "Z", "I"}
Digits == {"0", "1", "2", "3", "4", "5", "6", "7", "8", "9"}

\* ascii_upper.
Upper(c) == CASE c = "a" -> "A" [] c = "b" -> "B" [] OTHER -> c

\* file_character.
FileChars == Alphas \cup Digits \cup {"_", "-", "$"}
=============================================================================
