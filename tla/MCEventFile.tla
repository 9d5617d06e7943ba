---------------------------- MODULE MCEventFile -----------------------------
(* Instance: blocks of three bytes and a table of four, events of one to    *)
(* five bytes, up to four of them, so that events fill blocks, cross them   *)
(* and meet the full table; two events of two fields with every character   *)
(* that means something, and buffers that end everywhere in them.           *)
EXTENDS EventFile

MCSizes == {1, 2, 3, 5}
MCValues == {<<>>, <<97>>, <<Quote>>, <<Quote, Quote>>, <<Quote, Comma>>, <<LF>>, <<CR, LF, 97>>}
MCPlain == {<<>>, <<97>>, <<97, 98>>}
MCBufSizes == {1, 2, 3, 7}
=============================================================================
