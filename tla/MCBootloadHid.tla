--------------------------- MODULE MCBootloadHid ---------------------------
(* Blocks of 4 words, packets of 2 (the first of a report brings one word of *)
(* data, the last is short), 8 words of application, 16 of boot section, of  *)
(* which the uploader keeps 8 free.  Pages as long as blocks, of two blocks  *)
(* and of half a block.                                                      *)
EXTENDS BootloadHid

MCFlash0 == [a \in 0 .. (FlashWords - 1) |-> "old"]
Rec(b, d) == [base |-> b, type |-> 0, data |-> d]
Try(page, files, disturb) == [page |-> page, files |-> files, disturb |-> disturb]

Small == <<Rec(0, <<"a", "b">>)>>
Unaligned == <<Rec(3, <<"b", "a">>), [base |-> 0, type |-> 1, data |-> <<>>]>>
Overlapping == <<Rec(3, <<"a">>), Rec(1, <<"a", "a">>), Rec(2, <<"b">>),
                 [base |-> 0, type |-> 4, data |-> <<"a">>]>>
Late == <<Rec(7, <<"b">>)>>
TooLong == <<Rec(8, <<"a">>), Rec(FlashWords - 1, <<"a", "a">>)>>
NoData == <<[base |-> 0, type |-> 1, data |-> <<>>]>>
Straddling == <<Rec(BootStart - 1, <<"a", "b">>)>>

MCBench == {Try(4, {Unaligned, Overlapping, TooLong, NoData}, {"abort", "power"}),
            Try(8, {Late, Small}, {"abort", "power"}),
            Try(2, {Small, Straddling, TooLong}, {"power"})}
MCAbortBench == {Try(4, {Unaligned, Overlapping, TooLong, NoData}, {"abort"})}
MCReserveBench == {Try(4, {Straddling}, {})}
=============================================================================
