------------------------------- MODULE MCPricing ------------------------------
(* A wei is worth ten base units; EdgesMC is where a full seizure is within a *)
(* wei of half of the debt.                                                    *)
EXTENDS Pricing
Debts == {9000, 12000, 19999, 20001, 26000, 34000, 45000, 60000}
Colls == {11000, 13000, 17500, 20003, 22500, 24800, 27500, 33000, 42000, 47300, 61000}
Drawn ==
  [debt : Debts, coll : Colls, dp : {499, 500}, cp : {500}, other : {0, 250000}, deep : BOOLEAN,
   emode : BOOLEAN, known : BOOLEAN, kind : {"plain", "same", "pt"}]
\* At HF < 1 the debts are worth more than the collateral at its threshold.
PositionsMC ==
  {p \in Drawn :
     /\ p.coll * 800 < (p.debt + p.other \div 10) * (IF p.deep THEN 950 ELSE 1000)
     /\ p.known \/ p.emode
     /\ p.kind = "plain" \/ (p.debt = 45000 /\ p.known)}
EdgesMC ==
  [debt : 36437..36439, coll : {20001}, dp : {499}, cp : {500}, other : {0}, deep : {FALSE},
   emode : {FALSE}, known : {TRUE}, kind : {"plain"}]
TargetsMC == PositionsMC \cup EdgesMC
ChunksMC == <<<<3, 4>>, <<1, 4>>>>
=============================================================================
