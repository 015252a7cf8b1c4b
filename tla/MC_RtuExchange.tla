--------------------------- MODULE MC_RtuExchange ---------------------------
(* Real transactions with device 1, their checksums included.              *)
EXTENDS RtuExchange

ReadInput    == [request  |-> <<1, 4, 77, 226, 0, 2, 198, 145>>,
                 response |-> <<1, 4, 4, 1, 244, 0, 0, 187, 138>>]
ReadRefused  == [request  |-> <<1, 4, 77, 226, 0, 2, 198, 145>>,
                 response |-> <<1, 132, 2, 194, 193>>]
ReadCoils    == [request  |-> <<1, 1, 0, 0, 0, 20, 60, 5>>,
                 response |-> <<1, 1, 3, 205, 107, 5, 66, 130>>]
WriteOne     == [request  |-> <<1, 6, 19, 136, 0, 200, 12, 242>>,
                 response |-> <<1, 6, 19, 136, 0, 200, 12, 242>>]
WriteRefused == [request  |-> <<1, 6, 19, 136, 0, 200, 12, 242>>,
                 response |-> <<1, 134, 2, 195, 161>>]
WriteTwo     == [request  |-> <<1, 16, 0, 16, 0, 1, 2, 0, 7, 229, 2>>,
                 response |-> <<1, 16, 0, 16, 0, 1, 0, 12>>]

MCTransactions == {ReadInput, ReadRefused, ReadCoils, WriteOne, WriteRefused, WriteTwo}
MCCrcValid == {t.request : t \in MCTransactions} \cup {t.response : t \in MCTransactions}
=============================================================================
