-------------------------------- MODULE MCLcd --------------------------------
(* A panel of two by two with lines of four: the shortest that scrolls.  One *)
(* string makes both lines scroll, of widths 4 and 5 with the blank behind  *)
(* them, so that the speed of the shorter is a rounded quotient.            *)
EXTENDS Lcd

MCStrings == { <<"a", "b", "a", "LF", "a", "b", "b", "a">>,  \* longer than the panel
               <<"ESC", "BRACKET", "2">>,                     \* a sequence cut in two
               <<"J", "CR", "BS", "ESC", "K", "ESC", "BRACKET", "4", "SEMICOLON", "2", "H",
                 "LF", "b", "BS", "a">> }
=============================================================================
