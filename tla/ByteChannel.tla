----------------------------- MODULE ByteChannel -----------------------------
(***************************************************************************)
(* What a byte stream promises to both of its ends: bytes come out in the  *)
(* order they went in, each once, and no more than Capacity are under way. *)
(* The byte at position k of the stream is called k.                       *)
(***************************************************************************)
EXTENDS Naturals, Sequences

CONSTANT Capacity

VARIABLES accepted,   \* how many bytes the channel has taken in
          transit,    \* the bytes under way, oldest first
          delivered   \* the bytes that came out, oldest first

chanVars == <<accepted, transit, delivered>>

Init == accepted = 0 /\ transit = <<>> /\ delivered = <<>>

Accept ==
    \E n \in 1 .. Capacity - Len(transit) :
        /\ accepted' = accepted + n
        /\ transit' = transit \o [i \in 1 .. n |-> accepted + i]
        /\ UNCHANGED delivered

Deliver ==
    \E n \in 1 .. Len(transit) :
        /\ delivered' = delivered \o SubSeq(transit, 1, n)
        /\ transit' = SubSeq(transit, n + 1, Len(transit))
        /\ UNCHANGED accepted

Next == Accept \/ Deliver

Spec == Init /\ [][Next]_chanVars
=============================================================================
