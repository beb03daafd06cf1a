--------------------------- MODULE SourceRegistry ---------------------------
(***************************************************************************)
(* The sources of all tenants (webdata_sources) while they are created,    *)
(* edited and deleted by requests, and seeded by scripts that are run by   *)
(* hand, may be interrupted and are run again.  Of a row this module keeps *)
(* what identifies a source and what an administrator sets; the columns    *)
(* that scheduler and workers write are those of SourceTable.              *)
(***************************************************************************)
EXTENDS Sequences, Integers

CONSTANTS
  Tenants, Names, Categories,
  Admins,        \* concurrent requests that create or edit a source
  Scripts,       \* the seed scripts: [tenant, rows], with the rows a set of
                 \* [name, category]
  MaxRequests,   \* bound: requests and runs of a script
  MaxFaults      \* bound: statements that fail

ASSUME SourceRegistryAssumption ==
  /\ \A s \in Scripts : /\ s.tenant \in Tenants
                        /\ s.rows \subseteq [name : Names,
                                             category : Categories]
  /\ MaxRequests \in Nat /\ MaxFaults \in Nat

VARIABLES
  sources,   \* the rows, in the order of their insertion
  req,       \* req[a]: what request a is about to write
  seed,      \* the script that runs: its tenant and the rows left
  count      \* requests and faults so far

registryVars == <<sources, req, seed, count>>

(* rev counts the writes of the row: history, no column.                   *)
Row == [tenant : Tenants, name : Names, category : Categories,
        active : BOOLEAN, rev : Nat]
Ids == DOMAIN sources

(* NewSource, as far as this module goes.                                  *)
NewRow(t, n, k) == [tenant |-> t, name |-> n, category |-> k,
                    active |-> TRUE, rev |-> 0]

Columns == {"name", "category", "active"}
Idle == [pc |-> "idle"]
Memory == {Idle} \cup [pc : {"insert"}, row : Row]
                 \cup [pc : {"update"}, id : Ids, row : Row,
                       set : SUBSET Columns]
NoScript == [tenant |-> "none", left |-> {}]

RegistryInit ==
  /\ sources = << >>
  /\ req = [a \in Admins |-> Idle]
  /\ seed = NoScript
  /\ count = [requests |-> 0, faults |-> 0]

Admit == /\ count.requests < MaxRequests
         /\ count' = [count EXCEPT !.requests = @ + 1]
Fault == /\ count.faults < MaxFaults
         /\ count' = [count EXCEPT !.faults = @ + 1]

(* A request whose first statement fails.                                  *)
AdmitFault ==
  /\ count.requests < MaxRequests /\ count.faults < MaxFaults
  /\ count' = [requests |-> count.requests + 1, faults |-> count.faults + 1]

(* UNIQUE (tenant_id, name), deleted rows included.                        *)
Conflicts(row, id) ==
  \E i \in Ids \ {id} : /\ sources[i].tenant = row.tenant
                        /\ sources[i].name = row.name

(* POST /sources: the names of the tenant, deleted sources included, are   *)
(* read and compared; a query that fails counts as no names ...            *)
CreateRead(a, row) ==
  /\ req[a].pc = "idle"
  /\ Admit \/ AdmitFault
  /\ count'.faults = count.faults => ~ Conflicts(row, 0)
  /\ req' = [req EXCEPT ![a] = [pc |-> "insert", row |-> row]]
  /\ UNCHANGED <<sources, seed>>

(* ... and Save inserts the source, unless the name was taken meanwhile.   *)
CreateSave(a) ==
  /\ req[a].pc = "insert"
  /\ sources' = IF Conflicts(req[a].row, 0) THEN sources
                ELSE Append(sources, req[a].row)
  /\ req' = [req EXCEPT ![a] = Idle]
  /\ UNCHANGED <<seed, count>>

(* PATCH /sources/{id}: an active source is read, and the columns that the *)
(* request names are changed in the copy ...                               *)
EditRead(a, i, new, set) ==
  /\ req[a].pc = "idle"
  /\ Admit
  /\ sources[i].active
  /\ req' = [req EXCEPT ![a] =
       [pc |-> "update", id |-> i, set |-> set,
        row |-> [c \in DOMAIN sources[i] |->
                   IF c \in set THEN new[c] ELSE sources[i][c]]]]
  /\ UNCHANGED <<sources, seed>>

(* ... and the whole copy is written, unless its name is taken.            *)
EditSave(a) ==
  /\ req[a].pc = "update"
  /\ sources' = IF Conflicts(req[a].row, req[a].id) THEN sources
                ELSE [sources EXCEPT ![req[a].id] =
                        [req[a].row EXCEPT !.rev = sources[req[a].id].rev + 1]]
  /\ req' = [req EXCEPT ![a] = Idle]
  /\ UNCHANGED <<seed, count>>

(* A statement of a request fails, and the request with it.                *)
RequestFails(a) ==
  /\ req[a].pc # "idle"
  /\ Fault
  /\ req' = [req EXCEPT ![a] = Idle]
  /\ UNCHANGED <<sources, seed>>

(* DELETE /sources/{id}: is_active becomes false, whatever it was.         *)
Delete(i) ==
  /\ Admit
  /\ sources' = [sources EXCEPT ![i].active = FALSE, ![i].rev = @ + 1]
  /\ UNCHANGED <<req, seed>>
-----------------------------------------------------------------------------
(***************************************************************************)
(* The seed scripts: one INSERT ... ON CONFLICT DO NOTHING for each row.   *)
(***************************************************************************)
RunScript(s) ==
  /\ seed = NoScript
  /\ Admit
  /\ seed' = [tenant |-> s.tenant, left |-> s.rows]
  /\ UNCHANGED <<sources, req>>

Inserted(r) == seed' = IF seed.left = {r} THEN NoScript
                       ELSE [seed EXCEPT !.left = @ \ {r}]

(* Mutant of SeedInsert: ON CONFLICT DO UPDATE.                            *)
SeedUpsert(r) ==
  /\ LET row == NewRow(seed.tenant, r.name, r.category)
     IN sources' = IF Conflicts(row, 0)
                   THEN [i \in Ids |-> IF /\ sources[i].tenant = row.tenant
                                          /\ sources[i].name = row.name
                                       THEN row ELSE sources[i]]
                   ELSE Append(sources, row)
  /\ Inserted(r)
  /\ UNCHANGED <<req, count>>

(* A name that exists, deleted or not, is skipped.                         *)
SeedInsert(r) ==
  /\ LET row == NewRow(seed.tenant, r.name, r.category)
     IN sources' = IF Conflicts(row, 0) THEN sources ELSE Append(sources, row)
  /\ Inserted(r)
  /\ UNCHANGED <<req, count>>

(* So is a row whose INSERT fails, and the script goes on.                 *)
SeedSkips(r) ==
  /\ Fault
  /\ Inserted(r)
  /\ UNCHANGED <<sources, req>>

(* The script is interrupted.                                              *)
Interrupt ==
  /\ seed # NoScript
  /\ seed' = NoScript
  /\ UNCHANGED <<sources, req, count>>

RegistryStep ==
  \/ \E a \in Admins :
       \/ \E t \in Tenants, n \in Names, k \in Categories :
            CreateRead(a, NewRow(t, n, k))
       \/ \E i \in Ids, set \in SUBSET Columns :
            \E new \in [name : Names, category : Categories,
                        active : BOOLEAN] : EditRead(a, i, new, set)
       \/ CreateSave(a) \/ EditSave(a) \/ RequestFails(a)
  \/ \E i \in Ids : Delete(i)
  \/ \E s \in Scripts : RunScript(s)
  \/ \E r \in seed.left : SeedInsert(r) \/ SeedSkips(r)
  \/ Interrupt
-----------------------------------------------------------------------------
(***************************************************************************)
(* Properties.                                                             *)
(***************************************************************************)
RegistryTypeOK ==
  /\ sources \in Seq(Row)
  /\ req \in [Admins -> Memory]
  /\ seed.tenant \in Tenants \cup {"none"}
  /\ seed.left \subseteq [name : Names, category : Categories]
  /\ count \in [requests : Nat, faults : Nat]

(* What an administrator has set stays, a deletion included: a column of a *)
(* source changes only by a request that names it, or by one that read the *)
(* source before it was last written; never by a script that is run again. *)
OnlyStaleUpdatesUndo ==
  [][\A i \in Ids, c \in Columns :
       sources'[i][c] # sources[i][c] =>
         \/ \E a \in Admins :
              /\ req[a].pc = "update" /\ req[a].id = i /\ req'[a] = Idle
              /\ c \in req[a].set \/ req[a].row.rev < sources[i].rev
         \/ c = "active" /\ count'.requests > count.requests]_registryVars
=============================================================================
