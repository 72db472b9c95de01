------------------------------ MODULE MCAes ------------------------------
(***************************************************************************)
(* Aes with the tables of aes.c and the inputs of main.c, for TLC.         *)
(***************************************************************************)
EXTENDS Aes

(* The byte with value n, and the value of a byte. *)
ToByte(n) == {b \in Bits : (n \div 2^b) % 2 = 1}
Value(x) == SumSet({2^b : b \in x})

SboxTable == <<
    \h63, \h7c, \h77, \h7b, \hf2, \h6b, \h6f, \hc5, \h30, \h01, \h67, \h2b, \hfe, \hd7, \hab, \h76,
    \hca, \h82, \hc9, \h7d, \hfa, \h59, \h47, \hf0, \had, \hd4, \ha2, \haf, \h9c, \ha4, \h72, \hc0,
    \hb7, \hfd, \h93, \h26, \h36, \h3f, \hf7, \hcc, \h34, \ha5, \he5, \hf1, \h71, \hd8, \h31, \h15,
    \h04, \hc7, \h23, \hc3, \h18, \h96, \h05, \h9a, \h07, \h12, \h80, \he2, \heb, \h27, \hb2, \h75,
    \h09, \h83, \h2c, \h1a, \h1b, \h6e, \h5a, \ha0, \h52, \h3b, \hd6, \hb3, \h29, \he3, \h2f, \h84,
    \h53, \hd1, \h00, \hed, \h20, \hfc, \hb1, \h5b, \h6a, \hcb, \hbe, \h39, \h4a, \h4c, \h58, \hcf,
    \hd0, \hef, \haa, \hfb, \h43, \h4d, \h33, \h85, \h45, \hf9, \h02, \h7f, \h50, \h3c, \h9f, \ha8,
    \h51, \ha3, \h40, \h8f, \h92, \h9d, \h38, \hf5, \hbc, \hb6, \hda, \h21, \h10, \hff, \hf3, \hd2,
    \hcd, \h0c, \h13, \hec, \h5f, \h97, \h44, \h17, \hc4, \ha7, \h7e, \h3d, \h64, \h5d, \h19, \h73,
    \h60, \h81, \h4f, \hdc, \h22, \h2a, \h90, \h88, \h46, \hee, \hb8, \h14, \hde, \h5e, \h0b, \hdb,
    \he0, \h32, \h3a, \h0a, \h49, \h06, \h24, \h5c, \hc2, \hd3, \hac, \h62, \h91, \h95, \he4, \h79,
    \he7, \hc8, \h37, \h6d, \h8d, \hd5, \h4e, \ha9, \h6c, \h56, \hf4, \hea, \h65, \h7a, \hae, \h08,
    \hba, \h78, \h25, \h2e, \h1c, \ha6, \hb4, \hc6, \he8, \hdd, \h74, \h1f, \h4b, \hbd, \h8b, \h8a,
    \h70, \h3e, \hb5, \h66, \h48, \h03, \hf6, \h0e, \h61, \h35, \h57, \hb9, \h86, \hc1, \h1d, \h9e,
    \he1, \hf8, \h98, \h11, \h69, \hd9, \h8e, \h94, \h9b, \h1e, \h87, \he9, \hce, \h55, \h28, \hdf,
    \h8c, \ha1, \h89, \h0d, \hbf, \he6, \h42, \h68, \h41, \h99, \h2d, \h0f, \hb0, \h54, \hbb, \h16>>

RsboxTable == <<
    \h52, \h09, \h6a, \hd5, \h30, \h36, \ha5, \h38, \hbf, \h40, \ha3, \h9e, \h81, \hf3, \hd7, \hfb,
    \h7c, \he3, \h39, \h82, \h9b, \h2f, \hff, \h87, \h34, \h8e, \h43, \h44, \hc4, \hde, \he9, \hcb,
    \h54, \h7b, \h94, \h32, \ha6, \hc2, \h23, \h3d, \hee, \h4c, \h95, \h0b, \h42, \hfa, \hc3, \h4e,
    \h08, \h2e, \ha1, \h66, \h28, \hd9, \h24, \hb2, \h76, \h5b, \ha2, \h49, \h6d, \h8b, \hd1, \h25,
    \h72, \hf8, \hf6, \h64, \h86, \h68, \h98, \h16, \hd4, \ha4, \h5c, \hcc, \h5d, \h65, \hb6, \h92,
    \h6c, \h70, \h48, \h50, \hfd, \hed, \hb9, \hda, \h5e, \h15, \h46, \h57, \ha7, \h8d, \h9d, \h84,
    \h90, \hd8, \hab, \h00, \h8c, \hbc, \hd3, \h0a, \hf7, \he4, \h58, \h05, \hb8, \hb3, \h45, \h06,
    \hd0, \h2c, \h1e, \h8f, \hca, \h3f, \h0f, \h02, \hc1, \haf, \hbd, \h03, \h01, \h13, \h8a, \h6b,
    \h3a, \h91, \h11, \h41, \h4f, \h67, \hdc, \hea, \h97, \hf2, \hcf, \hce, \hf0, \hb4, \he6, \h73,
    \h96, \hac, \h74, \h22, \he7, \had, \h35, \h85, \he2, \hf9, \h37, \he8, \h1c, \h75, \hdf, \h6e,
    \h47, \hf1, \h1a, \h71, \h1d, \h29, \hc5, \h89, \h6f, \hb7, \h62, \h0e, \haa, \h18, \hbe, \h1b,
    \hfc, \h56, \h3e, \h4b, \hc6, \hd2, \h79, \h20, \h9a, \hdb, \hc0, \hfe, \h78, \hcd, \h5a, \hf4,
    \h1f, \hdd, \ha8, \h33, \h88, \h07, \hc7, \h31, \hb1, \h12, \h10, \h59, \h27, \h80, \hec, \h5f,
    \h60, \h51, \h7f, \ha9, \h19, \hb5, \h4a, \h0d, \h2d, \he5, \h7a, \h9f, \h93, \hc9, \h9c, \hef,
    \ha0, \he0, \h3b, \h4d, \hae, \h2a, \hf5, \hb0, \hc8, \heb, \hbb, \h3c, \h83, \h53, \h99, \h61,
    \h17, \h2b, \h04, \h7e, \hba, \h77, \hd6, \h26, \he1, \h69, \h14, \h63, \h55, \h21, \h0c, \h7d>>

RconTable == <<
    \h8d, \h01, \h02, \h04, \h08, \h10, \h20, \h40, \h80, \h1b, \h36>>

MCsbox == [x \in Byte |-> ToByte(SboxTable[Value(x) + 1])]
MCrsbox == [x \in Byte |-> ToByte(RsboxTable[Value(x) + 1])]
MCRcon == [i \in 0 .. 10 |-> ToByte(RconTable[i + 1])]

(* The words, the key or the block that a string of bytes is. *)
ByteWords(s) == [i \in 1 .. Len(s) \div 4 |-> [j \in 0 .. 3 |-> ToByte(s[4 * i + j - 3])]]
ByteBlock(s) == [i \in 0 .. 3 |-> [j \in 0 .. 3 |-> ToByte(s[4 * i + j + 1])]]

Key128 == ByteWords(<<\h2b, \h7e, \h15, \h16, \h28, \hae, \hd2, \ha6, \hab, \hf7, \h15, \h88, \h09, \hcf, \h4f, \h3c>>)

Key192 == ByteWords(<<\h8e, \h73, \hb0, \hf7, \hda, \h0e, \h64, \h52, \hc8, \h10, \hf3, \h2b, \h80, \h90, \h79, \he5,
    \h62, \hf8, \hea, \hd2, \h52, \h2c, \h6b, \h7b>>)

Key256 == ByteWords(<<\h60, \h3d, \heb, \h10, \h15, \hca, \h71, \hbe, \h2b, \h73, \hae, \hf0, \h85, \h7d, \h77, \h81,
    \h1f, \h35, \h2c, \h07, \h3b, \h61, \h08, \hd7, \h2d, \h98, \h10, \ha3, \h09, \h14, \hdf, \hf4>>)

Plain == ByteBlock(<<\h6b, \hc1, \hbe, \he2, \h2e, \h40, \h9f, \h96, \he9, \h3d, \h7e, \h11, \h73, \h93, \h17, \h2a>>)

Cipher128 == ByteBlock(<<\h3a, \hd7, \h7b, \hb4, \h0d, \h7a, \h36, \h60, \ha8, \h9e, \hca, \hf3, \h24, \h66, \hef, \h97>>)

Cipher192 == ByteBlock(<<\hbd, \h33, \h4f, \h1d, \h6e, \h45, \hf2, \h5f, \hf7, \h12, \ha2, \h14, \h57, \h1f, \ha5, \hcc>>)

Cipher256 == ByteBlock(<<\hf3, \hee, \hd1, \hbd, \hb5, \hd2, \ha0, \h3c, \h06, \h4b, \h5a, \h7e, \h3d, \hb1, \h81, \hf8>>)

(* plain_text as the main loop fills it: the 18 switches, then zeros. *)
Switches == ByteBlock(<<\h05, \h80, \h03, 0, 0, 0, 0, 0, 0, 0, 0, 0, 0, 0, 0, 0>>)

MCKeys == {Key128, Key192, Key256}
MCBlocks == {Plain, Cipher128, Switches}
MCAnswers == {[key |-> Key128, plain |-> Plain, cipher |-> Cipher128],
              [key |-> Key192, plain |-> Plain, cipher |-> Cipher192],
              [key |-> Key256, plain |-> Plain, cipher |-> Cipher256]}
=============================================================================
