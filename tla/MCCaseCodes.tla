---------------------------- MODULE MCCaseCodes ------------------------------
(* CaseCodes with the files that make imports meet each other and themselves. *)
EXTENDS CaseCodes, TLC

CONSTANTS AUTH, AUTH2, CART, auth, authors, cart

MCModules == {AUTH, AUTH2, CART}
MCNames == {auth, authors, cart}
MCDerive == [n \in MCNames |-> IF n = cart THEN CART ELSE AUTH]
MCSuffixed == [m \in MCModules |-> IF m = AUTH THEN <<AUTH2>> ELSE <<>>]
MCExisting == AUTH :> auth
MCNewModules == {[code |-> AUTH2, name |-> authors]}

Cell(id, name) == [id |-> id, name |-> name, valid |-> TRUE]
Bad(id, name) == [id |-> id, name |-> name, valid |-> FALSE]
\* An ID, and a row that is given the next code; a module whose derived code is another one's, and
\* one that may not exist yet; an ID that names a code derived before, used again by a row without a
\* module; the same after a row with errors, so that only the ID asks for the module.
MCFiles == {
  << Cell(<<AUTH, 1>>, auth), Cell(None, auth) >>,
  << Cell(None, authors), Cell(<<CART, 1>>, cart) >>,
  << Cell(None, authors), Cell(<<AUTH, 1>>, auth), Cell(<<AUTH, 1>>, None) >>,
  << Bad(None, authors), Cell(<<AUTH, 1>>, auth), Cell(None, authors) >> }
\* Links, confirmations and previews have no role of their own.
MCSymmetry == Permutations(Links) \cup Permutations(Confirms) \cup Permutations(Previews)
==============================================================================
