------------------------------- MODULE MCFiles -------------------------------
(* The program's two devices, a file system, and six descriptors: three    *)
(* besides the standard ones.                                              *)
EXTENDS Files

CONSTANTS lcd, jtag, fs

MCNameOf == [d \in {dev_null, lcd, jtag, fs} |->
               CASE d = dev_null -> <<"dev", "null">>
                 [] d = lcd      -> <<"dev", "lcd">>
                 [] d = jtag     -> <<"dev", "jtag">>
                 [] d = fs       -> <<"mnt">>]

Jtag == <<"dev", "jtag">>
Lcd  == <<"dev", "lcd">>
File == <<"mnt", "file">>
MCNames == {Jtag, Lcd, File, <<"dev">>}
=============================================================================
