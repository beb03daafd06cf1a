---------------------------- MODULE BusinessTypes ----------------------------
(***************************************************************************)
(* The business types of products (webdata_product_business_types) under   *)
(* concurrent requests: to replace those of a product, to remove one, to   *)
(* add one to many products, and to match products with types and apply    *)
(* what is proposed.                                                       *)
(*                                                                         *)
(* A step is one statement.  SaveBusinessTypes is a transaction of several *)
(* statements, in Postgres's READ COMMITTED: a row that another            *)
(* transaction has deleted or inserted is waited for, and a DELETE does    *)
(* not see the rows that were inserted while it waited.                    *)
(***************************************************************************)
EXTENDS BusinessTypeTables, SequencesExt

CONSTANTS
  Products,        \* products of one tenant, which exist
  SourceCategory,  \* SourceCategory[p]: the category of its source
  Authoritative,   \* products of sources with authoritative_category
  Resolved,        \* Resolved[p]: the type that the resolver shared by the
                   \* services finds for its own category, if any
  Category,        \* Category[p]: its own category, normalised, or ""
  Signals,         \* Signals[p]: entries of titleBrandSignals in its title
  Near,            \* pairs <<c, k>>: category c contains the entry k of
                   \* categoryMapping, of four letters or more, or the
                   \* other way round
  Types,           \* the types that the provider lists, in its order
  Mentions,        \* pairs <<t, k>>: the name or the code of type t contains
                   \* the keyword k
  Callers,         \* concurrent requests
  Puts,            \* sequences of types that a request may ask for
  MaxIds,          \* bound: product_ids of a bulk request
  MaxRequests,     \* bound: requests
  MaxFaults        \* bound: statements that fail

Codes == ToSet(Types)

ASSUME BusinessTypesAssumption ==
  /\ IsFiniteSet(Products) /\ IsFiniteSet(Callers)
  /\ \A p \in Products : /\ MapCategory(SourceCategory[p]) \subseteq Codes
                         /\ Resolved[p] \subseteq Codes
  /\ \A p \in Products : Signals[p] \subseteq EntriesOf(TitleBrandSignals)
  /\ \A pair \in Near : pair[2] \in EntriesOf(CategoryMapping)
  /\ Types \in Seq(Codes)
  /\ \A t, u \in DOMAIN Types : Types[t] = Types[u] => t = u
  /\ \A entry \in CategoryMapping \cup TitleBrandSignals :
       Len(entry.keywords) <= 3
  /\ Puts \subseteq Seq(Codes) \ {<< >>}
  /\ MaxIds \in Nat /\ MaxRequests \in Nat /\ MaxFaults \in Nat

VARIABLES
  types,       \* types[p]: the committed rows of product p
  mem,         \* mem[c]: the request of caller c
  count,       \* requests and faults so far
  ideal,       \* history: types[p], had every request been one step
  overlapped   \* history: products that two requests worked on at once

vars == <<types, mem, count, ideal, overlapped>>

Memory ==
  [pc : {"idle", "read", "delete", "await", "insert", "remove", "awaitRemove",
         "fetch", "offered"},
   todo : Seq(Products),           \* the products still to do
   code : Codes \cup {""},         \* the type to add or to remove
   left : Seq(Codes),              \* the types still to insert
   deleted : SUBSET Codes,         \* the rows the transaction has deleted
   inserted : SUBSET Codes,        \* and inserted
   awaited : SUBSET Codes,         \* the rows a waiting DELETE has seen
   named : BOOLEAN,                \* auto-match was given product_ids
   included : BOOLEAN,             \* include_already_assigned
   offers : SUBSET (Products \X Seq(Codes))]   \* what it proposes

Idle == [pc |-> "idle", todo |-> << >>, code |-> "", left |-> << >>,
         deleted |-> {}, inserted |-> {}, awaited |-> {}, named |-> FALSE,
         included |-> FALSE, offers |-> {}]

(* What the upsert assigns to a new product: the type of its own category, *)
(* or else of its source's, which goes first if it is authoritative.       *)
AssignmentToApply(p) ==
  LET autoAssignment == MapCategory(SourceCategory[p])
  IN IF (p \in Authoritative /\ autoAssignment # {}) \/ Resolved[p] = {}
     THEN autoAssignment ELSE Resolved[p]

Init ==
  /\ types = [p \in Products |-> AssignmentToApply(p)]
  /\ mem = [c \in Callers |-> Idle]
  /\ count = [requests |-> 0, faults |-> 0]
  /\ ideal = types /\ overlapped = {}

Item(c) == Head(mem[c].todo)
Goes(c, m) == mem' = [mem EXCEPT ![c] = m]
Works(c) == mem[c].todo # << >>

Request(c, m) ==
  /\ mem[c].pc = "idle" /\ count.requests < MaxRequests
  /\ count' = [count EXCEPT !.requests = @ + 1]
  /\ Goes(c, m)
  /\ UNCHANGED <<types, ideal>>
-----------------------------------------------------------------------------
(***************************************************************************)
(* SaveBusinessTypes                                                       *)
(***************************************************************************)
(* The request is done with its product, and a bulk one takes the next.    *)
Finished(c) ==
  IF Len(mem[c].todo) > 1
  THEN [Idle EXCEPT !.pc = "read", !.code = mem[c].code,
                    !.todo = Tail(mem[c].todo)]
  ELSE Idle

(* Another transaction has deleted row k of p, or inserted one like it.    *)
Deletes(d, p, k) == Works(d) /\ Item(d) = p /\ k \in mem[d].deleted
Inserts(d, p, k) == Works(d) /\ Item(d) = p /\ k \in mem[d].inserted
Locked(c, k)  == \E d \in Callers \ {c} : Deletes(d, Item(c), k)
Pending(c, k) == \E d \in Callers \ {c} : Inserts(d, Item(c), k)

(* Mutant of DeleteTypes: there is no transaction.                         *)
DeleteAtOnce(c) ==
  /\ mem[c].pc = "delete"
  /\ types' = [types EXCEPT ![Item(c)] = {}]
  /\ Goes(c, [mem[c] EXCEPT !.pc = "insert"])
  /\ UNCHANGED <<count, ideal>>

DeleteTypes(c) ==
  /\ mem[c].pc = "delete"
  /\ LET rows == types[Item(c)] IN
     Goes(c, IF \E k \in rows : Locked(c, k)
             THEN [mem[c] EXCEPT !.pc = "await", !.awaited = rows]
             ELSE [mem[c] EXCEPT !.pc = "insert", !.deleted = rows])
  /\ UNCHANGED <<types, count, ideal>>

DeleteResumes(c) ==
  /\ mem[c].pc = "await" /\ \A k \in mem[c].awaited : ~Locked(c, k)
  /\ Goes(c, [mem[c] EXCEPT !.pc = "insert", !.deleted = mem[c].awaited,
                            !.awaited = {}])
  /\ UNCHANGED <<types, count, ideal>>

(* Mutant of Rollback: defer tx.Rollback() is missing.                     *)
RollbackForgotten(c) == Goes(c, [mem[c] EXCEPT !.pc = "idle"])

Rollback(c) == Goes(c, Finished(c))

InsertType(c) ==
  /\ mem[c].pc = "insert" /\ mem[c].left # << >>
  /\ LET k == Head(mem[c].left) IN
     /\ ~Locked(c, k) /\ ~Pending(c, k)
     /\ IF k \in mem[c].inserted \cup (types[Item(c)] \ mem[c].deleted)
        THEN Rollback(c)            \* the primary key is violated
        ELSE Goes(c, [mem[c] EXCEPT !.left = Tail(@),
                                    !.inserted = @ \cup {k}])
  /\ UNCHANGED <<types, count, ideal>>

(* Two transactions that wait for each other: Postgres ends one.           *)
WaitsFor(c, d) ==
  /\ mem[c].pc = "insert" /\ mem[c].left # << >>
  /\ LET k == Head(mem[c].left) IN
     Deletes(d, Item(c), k) \/ Inserts(d, Item(c), k)
Deadlocked(c) ==
  /\ \E d \in Callers \ {c} : WaitsFor(c, d) /\ WaitsFor(d, c)
  /\ Rollback(c)
  /\ UNCHANGED <<types, count, ideal>>

(* Rows that are gone are not deleted by a statement that waited for them. *)
Gone(p, rows, m) ==
  [c \in Callers |-> IF m[c].todo # << >> /\ Head(m[c].todo) = p
                     THEN [m[c] EXCEPT !.awaited = @ \ rows] ELSE m[c]]

(* A commit whose answer is lost is this action too: the request, which    *)
(* reports an error, has nothing else to undo or to do with the product.   *)
Commit(c) ==
  /\ mem[c].pc = "insert" /\ mem[c].left = << >>
  /\ types' = [types EXCEPT ![Item(c)] =
                 (@ \ mem[c].deleted) \cup mem[c].inserted]
  /\ mem' = Gone(Item(c), mem[c].deleted, [mem EXCEPT ![c] = Finished(c)])
  /\ ideal' = [ideal EXCEPT ![Item(c)] =
                 IF mem[c].code = "" THEN mem[c].inserted
                 ELSE @ \cup {mem[c].code}]
  /\ UNCHANGED count

SaveBusinessTypes(c) ==
  \/ DeleteTypes(c) \/ DeleteResumes(c) \/ InsertType(c) \/ Deadlocked(c)
  \/ Commit(c)
-----------------------------------------------------------------------------
(***************************************************************************)
(* AssignBusinessTypes, RemoveBusinessType and BulkAssignBusinessType      *)
(***************************************************************************)
AssignBusinessTypes(c) ==
  \E p \in Products, codes \in Puts :
    Request(c, [Idle EXCEPT !.pc = "delete", !.todo = <<p>>, !.left = codes])

RemoveBusinessType(c) ==
  \E p \in Products, k \in Codes :
    Request(c, [Idle EXCEPT !.pc = "remove", !.todo = <<p>>, !.code = k])

BulkAssign(c) ==
  \E ps \in BoundedSeq(Products, MaxIds) \ {<< >>}, k \in Codes :
    Request(c, [Idle EXCEPT !.pc = "read", !.todo = ps, !.code = k])

Removes(c, k) ==
  /\ types' = [types EXCEPT ![Item(c)] = @ \ {k}]
  /\ mem' = Gone(Item(c), {k}, [mem EXCEPT ![c] = Idle])
  /\ ideal' = [ideal EXCEPT ![Item(c)] = @ \ {k}]
  /\ UNCHANGED count

RemoveRow(c) ==
  /\ mem[c].pc = "remove"
  /\ LET k == mem[c].code IN
     \/ k \in types[Item(c)] /\ ~Locked(c, k) /\ Removes(c, k)
     \/ /\ k \in types[Item(c)] /\ Locked(c, k)
        /\ Goes(c, [mem[c] EXCEPT !.pc = "awaitRemove", !.awaited = {k}])
        /\ UNCHANGED <<types, count, ideal>>
     \/ /\ k \notin types[Item(c)]
        /\ Goes(c, Idle) /\ UNCHANGED <<types, count, ideal>>

RemoveResumes(c) ==
  /\ mem[c].pc = "awaitRemove" /\ ~Locked(c, mem[c].code)
  /\ \/ mem[c].awaited # {} /\ Removes(c, mem[c].code)
     \/ /\ mem[c].awaited = {}
        /\ Goes(c, Idle) /\ UNCHANGED <<types, count, ideal>>

(* Mutant of ReadTypes: what the product has is not kept.                  *)
ReadForgets(c) ==
  /\ mem[c].pc = "read"
  /\ Goes(c, IF mem[c].code \in types[Item(c)] THEN Finished(c)
             ELSE [mem[c] EXCEPT !.pc = "delete", !.left = <<mem[c].code>>])
  /\ UNCHANGED <<types, count, ideal>>

(* What the product has, in some order, and the new type after it.         *)
ReadTypes(c) ==
  /\ mem[c].pc = "read"
  /\ \E existing \in SetToSeqs(types[Item(c)]) :
       Goes(c, IF mem[c].code \in ToSet(existing) THEN Finished(c)
               ELSE [mem[c] EXCEPT !.pc = "delete",
                                   !.left = Append(existing, mem[c].code)])
  /\ UNCHANGED <<types, count, ideal>>

(* A statement fails.                                                      *)
StatementFails(c) ==
  /\ mem[c].pc \notin {"idle", "offered"} /\ count.faults < MaxFaults
  /\ count' = [count EXCEPT !.faults = @ + 1]
  /\ Rollback(c)
  /\ UNCHANGED <<types, ideal>>
-----------------------------------------------------------------------------
(***************************************************************************)
(* AutoMatchBusinessTypes                                                  *)
(***************************************************************************)
(* The keywords for a category: those of its entry, or else of any entry   *)
(* that contains it or that it contains, in the order of a Go map.         *)
FindCategoryKeywords(category) ==
  IF category \in EntriesOf(CategoryMapping)
  THEN KeywordsIn(CategoryMapping, category)
  ELSE UNION {KeywordsIn(CategoryMapping, k) :
                k \in {e \in EntriesOf(CategoryMapping) :
                         <<category, e>> \in Near}}

InferKeywordsFromTitleBrand(p) ==
  UNION {KeywordsIn(TitleBrandSignals, s) : s \in Signals[p]}

Keywords(p) ==
  LET byCategory == IF Category[p] = "" THEN {}
                    ELSE FindCategoryKeywords(Category[p])
      byTitle    == InferKeywordsFromTitleBrand(p)
  IN CASE byCategory # {} -> byCategory
       [] byCategory = {} /\ byTitle # {} -> byTitle
       [] OTHER -> {<< >>}

(* Mutant of Matches: the keywords are proposed, not the types they name.  *)
MatchesWords(keywords) == SubSeq(keywords, 1, Min({3, Len(keywords)}))

(* For each keyword the first type that mentions it, three at most: no     *)
(* entry of the tables has more keywords than that.                        *)
FirstMention(k) ==
  Types[Min({n \in DOMAIN Types : <<Types[n], k>> \in Mentions})]

Match(keywords, n) ==
  IF /\ n \in DOMAIN keywords
     /\ \E t \in Codes : <<t, keywords[n]>> \in Mentions
  THEN <<FirstMention(keywords[n])>> ELSE << >>

Matches(keywords) ==
  Match(keywords, 1) \o Match(keywords, 2) \o Match(keywords, 3)

(* fetchAll and fetchByIDs: FindByID does not load the types of a product, *)
(* so that it passes for one that has none.                                *)
ListProducts(included) == {p \in Products : ~included => types[p] = {}}
NamedProducts(ids)     == ids

AutoMatch(c) ==
  \E named, included \in BOOLEAN :
    Request(c, [Idle EXCEPT !.pc = "fetch", !.named = named,
                            !.included = included])

(* The types are fetched, the products are read, and one of the possible   *)
(* answers is given; nothing is stored.                                    *)
Propose(c) ==
  /\ mem[c].pc = "fetch"
  /\ \E ids \in SUBSET Products \ {{}} :
       LET ps == IF mem[c].named THEN NamedProducts(ids)
                 ELSE ListProducts(mem[c].included)
       IN \E choice \in [ps -> UNION {Keywords(p) : p \in ps}] :
            /\ \A p \in ps : choice[p] \in Keywords(p)
            /\ Goes(c, [mem[c] EXCEPT
                 !.pc = "offered",
                 !.offers = {<<p, Matches(choice[p])>> :
                               p \in {q \in ps : Matches(choice[q]) # << >>}}])
  /\ UNCHANGED <<types, count, ideal>>

(* The administrator applies one of the proposals with a PUT, or none.     *)
Confirm(c) ==
  /\ mem[c].pc = "offered"
  /\ \/ \E offer \in mem[c].offers :
          Goes(c, [Idle EXCEPT !.pc = "delete", !.todo = <<offer[1]>>,
                               !.left = offer[2]])
     \/ Goes(c, Idle)
  /\ UNCHANGED <<types, count, ideal>>
-----------------------------------------------------------------------------
RequestStep(c) == \/ SaveBusinessTypes(c) \/ RemoveRow(c) \/ RemoveResumes(c)
                  \/ ReadTypes(c) \/ Propose(c) \/ Confirm(c)

Step == \E c \in Callers :
          \/ AssignBusinessTypes(c) \/ RemoveBusinessType(c) \/ BulkAssign(c)
          \/ AutoMatch(c) \/ RequestStep(c) \/ StatementFails(c)

(* Requests at work on product p; a bulk one may come to it later.         *)
At(p) == {c \in Callers : Works(c) /\ Item(c) = p}
Observe == overlapped' = overlapped \cup
                           {p \in Products : Cardinality(At(p)') > 1}

Next == Step /\ Observe

Spec     == Init /\ [][Next]_vars
FairSpec == Spec /\ \A c \in Callers : WF_vars(RequestStep(c) /\ Observe)
-----------------------------------------------------------------------------
(* Every variable keeps its shape.                                         *)
TypeOK ==
  /\ types \in [Products -> SUBSET Codes]
  /\ ideal \in [Products -> SUBSET Codes]
  /\ mem \in [Callers -> Memory]
  /\ count \in [requests : 0 .. MaxRequests, faults : 0 .. MaxFaults]
  /\ overlapped \subseteq Products

(* A product on which no two requests were ever at work has the types that *)
(* the requests ask for, applied one after the other and each of them in   *)
(* one step; those whose transaction failed count for nothing.             *)
AppliedInOrder == \A p \in Products \ overlapped : types[p] = ideal[p]

(* Only a request that removes a type leaves a product with none: neither  *)
(* a failed statement of a replacement nor two replacements at once do,    *)
(* although the first statement of each deletes every row (BeginTx,        *)
(* Rollback).                                                              *)
NeverEmptied ==
  [][\A p \in Products :
       types[p] # {} /\ types'[p] = {} =>
         \E c \in Callers : /\ mem[c].pc \in {"remove", "awaitRemove"}
                            /\ mem'[c].pc = "idle"]_vars

(* Every request ends, though transactions on one product wait for each    *)
(* other (defer tx.Rollback(), continue).                                  *)
RequestsEnd == \A c \in Callers : (mem[c].pc # "idle") ~> (mem[c].pc = "idle")
=============================================================================
