------------------------------ MODULE ImportFiles ------------------------------
(***************************************************************************)
(* What an import makes of a file: parseImportRows, which gives every row  *)
(* a module code, and the part of ensureModules that decides, from the     *)
(* modules the project has, which of them to create.  Pure functions.      *)
(***************************************************************************)
EXTENDS Naturals, Sequences, FiniteSetsExt, SequencesExt

CONSTANTS
  Modules,      \* module codes
  Names,        \* module names, in lower case
  Derive,       \* deriveModuleCode
  Suffixed,     \* Suffixed[m]: m with the suffixes 2, 3, ..., trimmed to ten characters
  MaxNumber,    \* bound on the numbers of codes
  None

Codes == Modules \X (1 .. MaxNumber)
\* A row as it is in the file; valid: it has a case name, and its ID is empty or well formed.
RawRows == [id : Codes \cup {None}, name : Names \cup {None}, valid : BOOLEAN]
Rows == [code : Codes \cup {None}, name : Names, module : Modules, derived : BOOLEAN, valid : BOOLEAN]

ASSUME ImportFilesAssumption ==
  /\ MaxNumber \in Nat /\ None \notin Codes \cup Modules \cup Names
  /\ Derive \in [Names -> Modules] /\ Suffixed \in [Modules -> Seq(Modules)]

\* Map.set.
Put(map, key, value) == [k \in DOMAIN map \cup {key} |-> IF k = key THEN value ELSE map[k]]

\* None when the suffixes that are listed do not suffice (bound).
UniqueModuleCode(base, taken) ==
  LET free == {k \in DOMAIN Suffixed[base] : Suffixed[base][k] \notin taken}
  IN IF base \notin taken THEN base
     ELSE IF free = {} THEN None
     ELSE Suffixed[base][Min(free)]

\* A name keeps the code of its first row: that row's ID prefix, or a derived code that no earlier
\* name of the file has (a prefix is not compared with them).
ModuleOf(parse, name, prefix) ==
  IF name \in DOMAIN parse.modules THEN parse.modules[name]
  ELSE IF prefix # None THEN [code |-> prefix, derived |-> FALSE]
  ELSE [code |-> UniqueModuleCode(Derive[name], {parse.modules[n].code : n \in DOMAIN parse.modules}),
        derived |-> TRUE]

\* A row without a module name is an error, but its ID counts as seen.
BuildRow(parse, raw) ==
  LET duplicate == raw.id \in parse.seen
      module == ModuleOf(parse, raw.name, IF raw.id = None \/ duplicate THEN None ELSE raw.id[1])
      seen == [parse EXCEPT !.seen = (@ \cup {raw.id}) \ {None}]
  IN IF raw.name = None THEN seen
     ELSE [seen EXCEPT !.modules = Put(@, raw.name, module),
             !.rows = Append(@, [code |-> raw.id, name |-> raw.name, module |-> module.code,
                                 derived |-> module.derived, valid |-> raw.valid /\ ~duplicate])]

NothingParsed == [rows |-> <<>>, seen |-> {}, modules |-> <<>>]
ParsedRows(table) == FoldLeft(BuildRow, NothingParsed, table).rows

\* The first valid row of every module code, in the order of the file.
Want(wanted, r) ==
  IF r.valid /\ \A k \in DOMAIN wanted : wanted[k].module # r.module THEN Append(wanted, r) ELSE wanted
Wanted(rows) == FoldLeft(Want, <<>>, rows)

Adding(plan, r, code) ==
  [plan EXCEPT !.codes = @ \cup {code}, !.to = Put(@, r.module, code),
               !.create = Append(@, [code |-> code, name |-> r.name])]

\* Mutant of Resolve: a derived code that is in use means that module, whatever its name.
ResolveByCode(plan, r) ==
  IF r.derived /\ r.name \in DOMAIN plan.byName THEN [plan EXCEPT !.to = Put(@, r.module, plan.byName[r.name])]
  ELSE IF r.module \in plan.codes THEN [plan EXCEPT !.to = Put(@, r.module, r.module)]
  ELSE Adding(plan, r, r.module)

\* A derived code means the module of that name, a prefix the module of that code; a derived code
\* that belongs to a module of another name is left until all the others are known.
Resolve(plan, r) ==
  IF r.derived /\ r.name \in DOMAIN plan.byName THEN [plan EXCEPT !.to = Put(@, r.module, plan.byName[r.name])]
  ELSE IF r.module \notin plan.codes THEN Adding(plan, r, r.module)
  ELSE IF r.derived THEN [plan EXCEPT !.collisions = Append(@, r)]
  ELSE [plan EXCEPT !.to = Put(@, r.module, r.module)]

ResolveCollision(plan, r) == Adding(plan, r, UniqueModuleCode(Derive[r.name], plan.codes))

\* to: where the rows of each module code go; create: the modules to create, in order.
NothingPlanned(codes, byName) ==
  [codes |-> codes, byName |-> byName, to |-> <<>>, create |-> <<>>, collisions |-> <<>>]
Plan(rows, codes, byName) ==
  LET first == FoldLeft(Resolve, NothingPlanned(codes, byName), Wanted(rows))
      all == FoldLeft(ResolveCollision, first, first.collisions)
  IN [to |-> all.to, create |-> all.create]
================================================================================
