--------------------------- MODULE MCMarketWindows ---------------------------
(***************************************************************************)
(* The instance of MarketWindows that is model-checked: a baseline and one *)
(* later window; the baseline may be moved, and turn out not to be traded  *)
(* and to cost nothing, and the anchor may be lost.  The jobs are new, or  *)
(* former releases have left some.                                         *)
(***************************************************************************)
EXTENDS MarketWindows

Both(a, b) == [w \in {"initial", "t_plus_5m"} |-> IF w = "initial" THEN a ELSE b]
MCRank == Both(0, 2)
MCPlans == <<[exact |-> TRUE, at |-> Both(1, 1), tradable |-> {"initial", "t_plus_5m"}],
             [exact |-> TRUE, at |-> Both(0, 1), tradable |-> {"t_plus_5m"}],
             [exact |-> FALSE, at |-> Nowhere, tradable |-> {}]>>
MCPrice == [m \in 0 .. 1 |-> IF m = 0 THEN "zero" ELSE "positive"]

Former(status, attempts, error) ==
    [status |-> status, attempts |-> attempts, at |-> 1,
     contract |-> "former", error |-> error]
MCFormers == {Both(Former("UNAVAILABLE", 2, "other"), Former("UNAVAILABLE", 2, "429")),
              Both(Unwritten, Former("PENDING", 0, "404"))}
=============================================================================
