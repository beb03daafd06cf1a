------------------------ MODULE GlobalEnrichmentProofs ------------------------
(***************************************************************************)
(* Proofs about ServiceToken alone, then about GlobalEnrichment and the    *)
(* registry in it: the shape of its variables, that no job gets a foreign  *)
(* tenant, that only a stale copy undoes what an administrator has set,    *)
(* and that its steps are steps of the service token, so that what is      *)
(* proved of that holds here as well.                                      *)
(***************************************************************************)
EXTENDS GlobalEnrichment, TLAPS

(***************************************************************************)
(* The service token: how old a token can get in a loop, and how many are  *)
(* made, for any number of callers and any durations.                      *)
(***************************************************************************)
Period == TTL - RefreshLead

(* A caller in its loop took a token with more than RefreshLead to live,   *)
(* and since then no more time has passed than it has sent requests.       *)
LoopInv ==
  \A c \in Clients : use[c].pc \in {"send", "wait"} =>
    /\ use[c].left > 0
    /\ use[c].expires > use[c].taken + RefreshLead
    /\ now <= use[c].taken + use[c].sent + use[c].waited
    /\ use[c].pc = "send" => use[c].waited = 0

(* A caller that waits for the token or for the lock has requests to send. *)
TodoInv ==
  \A c \in Clients : use[c].pc \in {"check", "lock"} =>
    use[c].left > 0 /\ use[c].sent = 0 /\ use[c].waited = 0

(* The cached token was made at expires - TTL, and all those before it at  *)
(* least a period apart.                                                   *)
MintInv ==
  \/ mints = 0 /\ expires = 0
  \/ /\ mints > 0 /\ expires >= TTL /\ expires <= now + TTL
     /\ (mints - 1) * Period <= expires - TTL

TokenInv == TokenTypeOK /\ LoopInv /\ TodoInv /\ MintInv

(* One more token is one more period.                                      *)
LEMMA OneMorePeriod ==
  ASSUME NEW n \in Nat, n > 0
  PROVE  /\ Period \in Nat /\ (n - 1) * Period \in Nat /\ n * Period \in Nat
         /\ n * Period = (n - 1) * Period + Period
         /\ 0 * Period = 0
  <1>1. Period \in Nat
    BY ServiceTokenAssumption DEF Period
  <1>. QED
    BY <1>1

(* Before anything has happened there is nothing to say.                   *)
LEMMA TokenInvInit == TokenInit => TokenInv
  BY ServiceTokenAssumption
  DEF TokenInit, TokenInv, TokenTypeOK, LoopInv, TodoInv, MintInv, Use,
      Asks, NoUse

(* A token that is handed out has more than RefreshLead to live.           *)
LEMMA TakeKeeps ==
  ASSUME TokenInv, NEW c \in Clients, NEW token \in Nat,
         use[c].pc \in {"check", "lock"}, token > now + RefreshLead,
         Takes(c, token), now' = now
  PROVE  use' \in [Clients -> Use] /\ LoopInv' /\ TodoInv'
  <1>1. use' \in [Clients -> Use]
    BY DEF TokenInv, TokenTypeOK, Use, Takes
  <1>2. LoopInv'
    BY ServiceTokenAssumption
    DEF TokenInv, TokenTypeOK, LoopInv, TodoInv, Use, Takes
  <1>3. TodoInv'
    BY DEF TokenInv, TokenTypeOK, TodoInv, Use, Takes
  <1>. QED
    BY <1>1, <1>2, <1>3

(* Every step keeps the invariant.                                         *)
LEMMA TokenInvStep == TokenInv /\ [TokenNext]_tokenVars => TokenInv'
  <1>. SUFFICES ASSUME TokenInv, [TokenNext]_tokenVars
                PROVE  TokenInv'
    OBVIOUS
  <1>. USE ServiceTokenAssumption
  <1>1. CASE Tick
    <2>1. TokenTypeOK'
      BY <1>1 DEF Tick, TokenInv, TokenTypeOK, Use
    <2>2. LoopInv'
      <3>. SUFFICES ASSUME NEW c \in Clients, use'[c].pc \in {"send", "wait"}
                    PROVE  /\ use'[c].left > 0
                           /\ use'[c].expires > use'[c].taken + RefreshLead
                           /\ now' <= use'[c].taken + use'[c].sent
                                        + use'[c].waited
                           /\ use'[c].pc = "send" => use'[c].waited = 0
        BY DEF LoopInv
      <3>1. /\ use[c].pc = "wait" /\ use[c].waited = 0
            /\ use'[c] = [use[c] EXCEPT !.waited = 1] /\ now' = now + 1
        BY <1>1 DEF Tick, TokenInv, TokenTypeOK, Use
      <3>2. use[c] \in Use /\ now \in Nat
        BY DEF TokenInv, TokenTypeOK
      <3>. QED
        BY <3>1, <3>2 DEF TokenInv, LoopInv, Use
    <2>3. TodoInv'
      BY <1>1 DEF Tick, TokenInv, TokenTypeOK, TodoInv, Use
    <2>4. MintInv'
      BY <1>1 DEF Tick, TokenInv, TokenTypeOK, MintInv
    <2>. QED
      BY <2>1, <2>2, <2>3, <2>4 DEF TokenInv
  <1>2. ASSUME NEW c \in Clients, NEW n \in 1 .. MaxLoop, Begin(c, n)
        PROVE  TokenInv'
    <2>. DEFINE new == Asks("check", n)
    <2>1. /\ new \in Use /\ new.pc = "check" /\ new.left > 0
          /\ new.sent = 0 /\ new.waited = 0
      <3>1. n \in Nat /\ n > 0 /\ n \in 0 .. MaxLoop
        OBVIOUS
      <3>. QED
        BY <3>1 DEF Asks, Use
    <2>2. use' = [use EXCEPT ![c] = new] /\ UNCHANGED <<now, expires, mints>>
      BY <1>2 DEF Begin
    <2>. HIDE DEF new
    <2>. QED
      BY <2>1, <2>2 DEF TokenInv, TokenTypeOK, LoopInv, TodoInv, MintInv
  <1>3. ASSUME NEW c \in Clients, ReadCached(c)
        PROVE  TokenInv'
    <2>1. CASE IsFresh
      <3>1. use' \in [Clients -> Use] /\ LoopInv' /\ TodoInv'
        BY <1>3, <2>1, TakeKeeps DEF ReadCached, IsFresh, TokenInv, TokenTypeOK
      <3>. QED
        BY <1>3, <3>1 DEF ReadCached, TokenInv, TokenTypeOK, MintInv
    <2>2. CASE ~IsFresh
      BY <1>3, <2>2 DEF ReadCached, TokenInv, TokenTypeOK, LoopInv, TodoInv,
                        MintInv, Use
    <2>. QED
      BY <2>1, <2>2
  <1>4. ASSUME NEW c \in Clients, Mint(c)
        PROVE  TokenInv'
    <2>1. CASE IsFresh
      <3>1. use' \in [Clients -> Use] /\ LoopInv' /\ TodoInv'
        BY <1>4, <2>1, TakeKeeps DEF Mint, IsFresh, TokenInv, TokenTypeOK
      <3>. QED
        BY <1>4, <2>1, <3>1 DEF Mint, TokenInv, TokenTypeOK, MintInv
    <2>2. CASE ~IsFresh
      <3>1. /\ use' \in [Clients -> Use] /\ LoopInv' /\ TodoInv'
        BY <1>4, <2>2, TakeKeeps, now + TTL \in Nat
        DEF Mint, TokenInv, TokenTypeOK
      <3>2. MintInv'
        <4>1. CASE mints = 0
          BY <1>4, <2>2, <4>1, OneMorePeriod, 1 \in Nat
          DEF Mint, MintInv, TokenInv, TokenTypeOK
        <4>2. CASE mints > 0
          <5>1. mints * Period <= now
            BY <2>2, <4>2, OneMorePeriod
            DEF IsFresh, MintInv, TokenInv, TokenTypeOK, Period
          <5>. QED
            BY <1>4, <2>2, <4>2, <5>1 DEF Mint, MintInv, TokenInv, TokenTypeOK
        <4>. QED
          BY <4>1, <4>2 DEF TokenInv, TokenTypeOK
      <3>. QED
        BY <1>4, <2>2, <3>1, <3>2 DEF Mint, TokenInv, TokenTypeOK
    <2>. QED
      BY <2>1, <2>2
  <1>5. ASSUME NEW c \in Clients, SendRequest(c)
        PROVE  TokenInv'
    BY <1>5 DEF SendRequest, TokenInv, TokenTypeOK, LoopInv, TodoInv, MintInv,
                Use
  <1>6. ASSUME NEW c \in Clients, Answered(c)
        PROVE  TokenInv'
    <2>1. PICK pc \in {IF use[c].left = 1 THEN "done" ELSE "send", "failed"} :
            use' = [use EXCEPT ![c] = Counted(use[c], pc)]
      BY <1>6 DEF Answered
    <2>2. use[c].pc = "wait" /\ UNCHANGED <<now, expires, mints>>
      BY <1>6 DEF Answered
    <2>3. /\ use[c] \in Use /\ use[c].left > 0 /\ now \in Nat
          /\ use[c].expires > use[c].taken + RefreshLead
          /\ now <= use[c].taken + use[c].sent + use[c].waited
      BY <2>2 DEF TokenInv, TokenTypeOK, LoopInv
    <2>4. pc \in {"done", "send", "failed"} /\ (pc = "send" => use[c].left # 1)
      BY <2>1
    <2>. DEFINE next == Counted(use[c], pc)
    <2>5. next \in Use
      <3>1. use[c].left - 1 \in 0 .. MaxLoop /\ use[c].sent + 1 \in Nat
        BY <2>3 DEF Use
      <3>. QED
        BY <2>3, <2>4, <3>1 DEF Use, Counted
    <2>6. pc = "send" => next.left > 0
      BY <2>3, <2>4 DEF Use, Counted
    <2>7. /\ next.expires > next.taken + RefreshLead
          /\ now <= next.taken + next.sent + next.waited
          /\ next.waited = 0 /\ next.pc = pc /\ pc # "wait"
      BY <2>3, <2>4 DEF Use, Counted
    <2>8. use' = [use EXCEPT ![c] = next]
      BY <2>1
    <2>. HIDE DEF next
    <2>9. TokenTypeOK'
      BY <2>2, <2>5, <2>8 DEF TokenInv, TokenTypeOK
    <2>10. LoopInv'
      BY <2>2, <2>6, <2>7, <2>8 DEF TokenInv, TokenTypeOK, LoopInv
    <2>. QED
      BY <2>2, <2>4, <2>7, <2>8, <2>9, <2>10
      DEF TokenInv, TokenTypeOK, TodoInv, MintInv
  <1>7. ASSUME NEW c \in Clients, End(c)
        PROVE  TokenInv'
    BY <1>7 DEF End, Asks, NoUse, TokenInv, TokenTypeOK, LoopInv, TodoInv,
                MintInv, Use
  <1>8. CASE UNCHANGED tokenVars
    BY <1>8 DEF tokenVars, TokenInv, TokenTypeOK, LoopInv, TodoInv, MintInv
  <1>. QED
    BY <1>1, <1>2, <1>3, <1>4, <1>5, <1>6, <1>7, <1>8
    DEF TokenNext, CallStep

(* What the two properties say of one state.                               *)
LEMMA TokenInvImplies == TokenInv => RefusedOnlyLate /\ MintedOncePerPeriod
  <1>. SUFFICES ASSUME TokenInv
                PROVE  RefusedOnlyLate /\ MintedOncePerPeriod
    OBVIOUS
  <1>1. RefusedOnlyLate
    BY ServiceTokenAssumption
    DEF TokenInv, TokenTypeOK, LoopInv, RefusedOnlyLate, Use
  <1>2. MintedOncePerPeriod
    <2>1. CASE mints = 0
      BY <2>1, ServiceTokenAssumption, OneMorePeriod, 1 \in Nat
      DEF TokenInv, TokenTypeOK, MintedOncePerPeriod, Period
    <2>2. CASE mints > 0
      BY <2>2, ServiceTokenAssumption, OneMorePeriod
      DEF TokenInv, TokenTypeOK, MintInv, MintedOncePerPeriod, Period
    <2>. QED
      BY <2>1, <2>2 DEF TokenInv, TokenTypeOK
  <1>. QED
    BY <1>1, <1>2

(* The provider and its callers keep their shape, and no loop ends for its *)
(* token's age before more than RefreshLead requests of it are answered.   *)
THEOREM TokensLastTheLead == TokenSpec => [](TokenTypeOK /\ RefusedOnlyLate)
  <1>1. TokenInv => TokenTypeOK /\ RefusedOnlyLate
    BY TokenInvImplies DEF TokenInv
  <1>. QED
    BY <1>1, TokenInvInit, TokenInvStep, PTL DEF TokenSpec

(* The double check under the lock: one token for each period.             *)
THEOREM OneTokenPerPeriod == TokenSpec => []MintedOncePerPeriod
  <1>1. TokenInv => MintedOncePerPeriod
    BY TokenInvImplies
  <1>. QED
    BY <1>1, TokenInvInit, TokenInvStep, PTL DEF TokenSpec
-----------------------------------------------------------------------------
(***************************************************************************)
(* A request that is about to write a source has a copy of the row as it   *)
(* was at some time.  Nothing changes the tenant of a row, and every write *)
(* changes its rev: as long as the row has the rev of the copy, the copy   *)
(* differs from it only in the columns that the request sets.              *)
(***************************************************************************)
MemoryOf(ids) == {Idle} \cup [pc : {"insert"}, row : Row]
                        \cup [pc : {"update"}, id : ids, row : Row,
                              set : SUBSET Columns]
SetApart(set, r, s) ==
  /\ r.name = s.name \/ "name" \in set
  /\ r.category = s.category \/ "category" \in set
  /\ r.active = s.active \/ "active" \in set
Copied(m, rows) ==
  m.pc = "update" =>
    /\ m.row.tenant = rows[m.id].tenant
    /\ m.row.rev <= rows[m.id].rev
    /\ m.row.rev = rows[m.id].rev => SetApart(m.set, m.row, rows[m.id])
Seeds == [name : Names, category : Categories]
SeedOK(s) ==
  /\ s \in [tenant : Tenants \cup {"none"}, left : SUBSET Seeds]
  /\ s.left # {} => s.tenant \in Tenants
Counts == [requests : Nat, faults : Nat]

RegistryInv ==
  /\ sources \in Seq(Row)
  /\ req \in [Admins -> MemoryOf(Ids)]
  /\ SeedOK(seed)
  /\ count \in Counts
  /\ \A a \in Admins : Copied(req[a], sources)

(***************************************************************************)
(* What a step does to the rows, to the copies, and to what was set.       *)
(***************************************************************************)
Grow ==
  /\ sources' \in Seq(Row) /\ Ids \subseteq Ids'
  /\ \A i \in Ids : /\ sources'[i].tenant = sources[i].tenant
                    /\ sources[i].rev <= sources'[i].rev
                    /\ sources'[i].rev = sources[i].rev =>
                         sources'[i] = sources[i]
Remember ==
  \/ req' = req
  \/ \E a \in Admins, m \in MemoryOf(Ids') :
       req' = [req EXCEPT ![a] = m] /\ Copied(m, sources')
Undo ==
  \A i \in Ids, c \in Columns :
    sources'[i][c] # sources[i][c] =>
      \/ \E a \in Admins :
           /\ req[a].pc = "update" /\ req[a].id = i /\ req'[a] = Idle
           /\ c \in req[a].set \/ req[a].row.rev < sources[i].rev
      \/ c = "active" /\ count'.requests > count.requests
Moves == Grow /\ Remember /\ SeedOK(seed') /\ count' \in Counts /\ Undo
-----------------------------------------------------------------------------
LEMMA SameRows ==
  ASSUME RegistryInv, sources' = sources
  PROVE  Grow /\ Undo
<1>1. \A i \in Ids : sources[i] \in Row
  BY DEF RegistryInv, Ids
<1>2. \A i \in Ids : sources[i].rev <= sources[i].rev
  BY <1>1 DEF Row
<1>3. Ids' = Ids /\ sources' \in Seq(Row)
  BY DEF Ids, RegistryInv
<1>4. /\ \A i \in Ids : /\ sources'[i].tenant = sources[i].tenant
                        /\ sources[i].rev <= sources'[i].rev
                        /\ sources'[i] = sources[i]
  BY <1>2
<1>5. Grow
  BY <1>3, <1>4 DEF Grow
<1>6. QED
  BY <1>4, <1>5 DEF Undo

LEMMA AppendedRow ==
  ASSUME RegistryInv, NEW r \in Row, sources' = Append(sources, r)
  PROVE  Grow /\ Undo
<1>1. sources \in Seq(Row)
  BY DEF RegistryInv
<1>2. sources' \in Seq(Row) /\ Ids \subseteq Ids'
      /\ \A i \in Ids : sources'[i] = sources[i]
  BY <1>1 DEF Ids
<1>3. \A i \in Ids : sources[i] \in Row
  BY <1>1 DEF Ids
<1>4. \A i \in Ids : sources[i].rev <= sources[i].rev
  BY <1>3 DEF Row
<1>5. Grow
  BY <1>2, <1>4 DEF Grow
<1>6. QED
  BY <1>2, <1>5 DEF Undo

LEMMA WrittenRow ==
  ASSUME RegistryInv, NEW i \in Ids, NEW r \in Row,
         sources' = [sources EXCEPT ![i] = r],
         r.tenant = sources[i].tenant, r.rev = sources[i].rev + 1
  PROVE  /\ Grow /\ sources'[i] = r
         /\ \A j \in Ids \ {i} : sources'[j] = sources[j]
<1>1. sources \in Seq(Row)
  BY DEF RegistryInv
<1>2. \A j \in Ids : sources[j] \in Row
  BY <1>1 DEF Ids
<1>3. sources' \in Seq(Row) /\ Ids' = Ids
  BY <1>1 DEF Ids
<1>4. sources'[i] = r /\ \A j \in Ids \ {i} : sources'[j] = sources[j]
  BY <1>1 DEF Ids
<1>5. sources[i].rev \in Nat
  BY <1>2 DEF Row
<1>6. sources[i].rev <= r.rev /\ r.rev # sources[i].rev
  BY <1>5
<1>7. \A j \in Ids \ {i} : sources[j].rev <= sources[j].rev
  BY <1>2 DEF Row
<1>8. Grow
  BY <1>3, <1>4, <1>6, <1>7 DEF Grow
<1>9. QED
  BY <1>4, <1>8

(* Columns by their names.                                                 *)
LEMMA SameColumn ==
  ASSUME NEW r \in Row, NEW s \in Row, NEW set, SetApart(set, r, s),
         NEW c \in Columns, r[c] # s[c]
  PROVE  c \in set
BY DEF Columns, SetApart

LEMMA CopyStays ==
  ASSUME RegistryInv, Grow, NEW a \in Admins
  PROVE  req[a] \in MemoryOf(Ids') /\ Copied(req[a], sources')
<1>1. req[a] \in MemoryOf(Ids) /\ Copied(req[a], sources)
  BY DEF RegistryInv
<1>2. req[a] \in MemoryOf(Ids')
  BY <1>1 DEF Grow, MemoryOf
<1>3. CASE req[a].pc = "update"
  <2>1. req[a].id \in Ids /\ req[a].row \in Row
    BY <1>1, <1>3 DEF MemoryOf, Idle
  <2> DEFINE i == req[a].id
             r == req[a].row
  <2>2. sources[i].rev \in Nat /\ sources'[i].rev \in Nat /\ r.rev \in Nat
    <3>1. sources[i] \in Row
      BY <2>1 DEF RegistryInv, Ids
    <3>2. sources'[i] \in Row
      BY <2>1 DEF Grow, Ids
    <3>3. QED
      BY <2>1, <3>1, <3>2 DEF Row
  <2>3. /\ r.tenant = sources[i].tenant /\ r.rev <= sources[i].rev
        /\ r.rev = sources[i].rev => SetApart(req[a].set, r, sources[i])
    BY <1>1, <1>3 DEF Copied
  <2>4. /\ sources'[i].tenant = sources[i].tenant
        /\ sources[i].rev <= sources'[i].rev
        /\ sources'[i].rev = sources[i].rev => sources'[i] = sources[i]
    BY <2>1 DEF Grow
  <2> HIDE DEF i, r
  <2>5. r.rev <= sources'[i].rev
    BY <2>2, <2>3, <2>4
  <2>6. r.rev = sources'[i].rev => sources'[i] = sources[i] /\ r.rev = sources[i].rev
    BY <2>2, <2>3, <2>4
  <2>7. QED
    BY <1>2, <2>3, <2>4, <2>5, <2>6 DEF Copied, i, r
<1>4. QED
  BY <1>2, <1>3 DEF Copied

LEMMA MovesKeep ==
  ASSUME RegistryInv, Moves
  PROVE  RegistryInv'
<1>1. \A a \in Admins : req[a] \in MemoryOf(Ids') /\ Copied(req[a], sources')
  BY CopyStays DEF Moves
<1>2. req \in [Admins -> MemoryOf(Ids')]
  BY <1>1 DEF RegistryInv
<1>3. /\ req' \in [Admins -> MemoryOf(Ids')]
      /\ \A a \in Admins : Copied(req'[a], sources')
  BY <1>1, <1>2 DEF Moves, Remember
<1>4. QED
  BY <1>3 DEF RegistryInv, Moves, Grow
-----------------------------------------------------------------------------
LEMMA CountsAre ==
  ASSUME RegistryInv
  PROVE  /\ Admit => count' \in Counts /\ count'.requests > count.requests
         /\ Fault => count' \in Counts
         /\ AdmitFault => count' \in Counts
         /\ count' = count => count' \in Counts
<1>1. count \in Counts
  BY DEF RegistryInv
<1>2. QED
  BY <1>1 DEF Counts, Admit, Fault, AdmitFault

(* A request that is idle again, or about to insert, has no copy.          *)
LEMMA NoCopy ==
  ASSUME NEW a \in Admins, NEW r \in Row,
         req' = [req EXCEPT ![a] = Idle]
         \/ req' = [req EXCEPT ![a] = [pc |-> "insert", row |-> r]]
  PROVE  Remember
<1>1. Idle \in MemoryOf(Ids') /\ Copied(Idle, sources')
  BY DEF MemoryOf, Copied, Idle
<1> DEFINE m == [pc |-> "insert", row |-> r]
<1>2. m \in MemoryOf(Ids') /\ Copied(m, sources')
  BY DEF MemoryOf, Copied
<1> HIDE DEF m
<1>3. req' = [req EXCEPT ![a] = Idle] \/ req' = [req EXCEPT ![a] = m]
  BY DEF m
<1>4. QED
  BY <1>1, <1>2, <1>3 DEF Remember

LEMMA IdleRemembers ==
  ASSUME NEW a \in Admins, req' = [req EXCEPT ![a] = Idle]
  PROVE  Remember
<1>1. Idle \in MemoryOf(Ids') /\ Copied(Idle, sources')
  BY DEF MemoryOf, Copied, Idle
<1>2. QED
  BY <1>1 DEF Remember

LEMMA CreateMoves ==
  ASSUME RegistryInv, NEW a \in Admins,
         \/ CreateSave(a)
         \/ \E t \in Tenants, n \in Names, k \in Categories :
              CreateRead(a, NewRow(t, n, k))
  PROVE  Moves
<1>1. SeedOK(seed') /\ count' \in Counts
  <2>1. SeedOK(seed)
    BY DEF RegistryInv
  <2>2. QED
    BY <2>1, CountsAre DEF CreateSave, CreateRead
<1>2. CASE CreateSave(a)
  <2>1. req[a].row \in Row
    <3>1. req[a] \in MemoryOf(Ids) /\ req[a].pc = "insert"
      BY <1>2 DEF RegistryInv, CreateSave
    <3>2. QED
      BY <3>1 DEF MemoryOf, Idle
  <2>2. sources' = sources \/ sources' = Append(sources, req[a].row)
    BY <1>2 DEF CreateSave
  <2>3. Remember
    BY <1>2, IdleRemembers DEF CreateSave
  <2>4. QED
    BY <1>1, <2>1, <2>2, <2>3, SameRows, AppendedRow DEF Moves
<1>3. CASE \E t \in Tenants, n \in Names, k \in Categories :
             CreateRead(a, NewRow(t, n, k))
  <2>1. PICK t \in Tenants, n \in Names, k \in Categories :
               CreateRead(a, NewRow(t, n, k))
    BY <1>3
  <2> DEFINE r == NewRow(t, n, k)
  <2>2. r \in Row
    BY DEF NewRow, Row
  <2>3. /\ sources' = sources
        /\ req' = [req EXCEPT ![a] = [pc |-> "insert", row |-> r]]
    BY <2>1 DEF CreateRead
  <2> HIDE DEF r
  <2>4. Remember
    BY <2>2, <2>3, NoCopy
  <2>5. QED
    BY <1>1, <2>3, <2>4, SameRows DEF Moves
<1>4. QED
  BY <1>2, <1>3

LEMMA EditedRow ==
  ASSUME NEW r \in Row, NEW set \in SUBSET Columns,
         NEW new \in [name : Names, category : Categories, active : BOOLEAN]
  PROVE  LET q == [c \in DOMAIN r |-> IF c \in set THEN new[c] ELSE r[c]]
         IN  q \in Row /\ q.tenant = r.tenant /\ q.rev = r.rev
             /\ SetApart(set, q, r)
<1> DEFINE q == [c \in DOMAIN r |-> IF c \in set THEN new[c] ELSE r[c]]
<1>1. DOMAIN r = {"tenant", "name", "category", "active", "rev"}
  BY DEF Row
<1>2. q.tenant = r.tenant /\ q.rev = r.rev /\ SetApart(set, q, r)
  BY <1>1 DEF Columns, SetApart
<1>3. q.name \in Names /\ q.category \in Categories /\ q.active \in BOOLEAN
  BY <1>1 DEF Columns, Row
<1>4. DOMAIN q = {"tenant", "name", "category", "active", "rev"}
  BY <1>1
<1>5. r.tenant \in Tenants /\ r.rev \in Nat
  BY DEF Row
<1>6. q = [c \in DOMAIN q |-> q[c]]
  OBVIOUS
<1> HIDE DEF q
<1>7. q = [tenant |-> q.tenant, name |-> q.name, category |-> q.category,
           active |-> q.active, rev |-> q.rev]
  BY <1>4, <1>6
<1>8. q \in Row
  BY <1>2, <1>3, <1>5, <1>7 DEF Row
<1>9. QED
  BY <1>2, <1>8 DEF q

LEMMA EditReadMoves ==
  ASSUME RegistryInv, NEW a \in Admins, NEW i \in Ids,
         NEW set \in SUBSET Columns,
         NEW new \in [name : Names, category : Categories, active : BOOLEAN],
         EditRead(a, i, new, set)
  PROVE  Moves
<1>1. sources[i] \in Row
  BY DEF RegistryInv, Ids
<1> DEFINE q == [c \in DOMAIN sources[i] |->
                   IF c \in set THEN new[c] ELSE sources[i][c]]
           m == [pc |-> "update", id |-> i, set |-> set, row |-> q]
<1>2. /\ q \in Row /\ q.tenant = sources[i].tenant
      /\ q.rev = sources[i].rev /\ SetApart(set, q, sources[i])
  BY <1>1, EditedRow
<1>3. sources' = sources /\ seed' = seed /\ Admit
      /\ req' = [req EXCEPT ![a] = m]
  BY DEF EditRead
<1> HIDE DEF q
<1>4. m \in MemoryOf(Ids)
  BY <1>2 DEF MemoryOf
<1>5. sources[i].rev <= sources[i].rev
  BY <1>1 DEF Row
<1>6. Copied(m, sources)
  BY <1>2, <1>5 DEF Copied
<1> HIDE DEF m
<1>7. Ids' = Ids
  BY <1>3 DEF Ids
<1>8. Remember
  BY <1>3, <1>4, <1>6, <1>7 DEF Remember
<1>9. SeedOK(seed') /\ count' \in Counts
  BY <1>3, CountsAre DEF RegistryInv
<1>10. QED
  BY <1>3, <1>8, <1>9, SameRows DEF Moves

LEMMA EditSaveMoves ==
  ASSUME RegistryInv, NEW a \in Admins, EditSave(a)
  PROVE  Moves
<1>1. req[a] \in MemoryOf(Ids) /\ req[a].pc = "update"
      /\ Copied(req[a], sources)
  BY DEF RegistryInv, EditSave
<1> DEFINE i == req[a].id
           r == req[a].row
           n == sources[i].rev + 1
           q == [r EXCEPT !.rev = n]
<1>2. i \in Ids /\ r \in Row
  BY <1>1 DEF MemoryOf, Idle
<1>3. sources[i] \in Row /\ sources[i].rev \in Nat
  <2> HIDE DEF i
  <2>1. sources[i] \in Row
    BY <1>2 DEF RegistryInv, Ids
  <2>2. QED
    BY <2>1 DEF Row
<1>4. /\ r.tenant = sources[i].tenant
      /\ r.rev <= sources[i].rev
      /\ r.rev = sources[i].rev => SetApart(req[a].set, r, sources[i])
  BY <1>1 DEF Copied
<1>5. Remember
  BY IdleRemembers DEF EditSave
<1>6. SeedOK(seed') /\ count' \in Counts
  <2>1. SeedOK(seed) /\ count' = count /\ seed' = seed
    BY DEF RegistryInv, EditSave
  <2>2. QED
    BY <2>1, CountsAre
<1>7. CASE sources' = sources
  BY <1>5, <1>6, <1>7, SameRows DEF Moves
<1>8. CASE sources' = [sources EXCEPT ![i] = q]
  <2>1. n \in Nat /\ n = sources[i].rev + 1
    BY <1>3
  <2>2. req'[a] = Idle
    BY DEF EditSave, RegistryInv
  <2>3. req[a].id = i /\ req[a].row = r
    OBVIOUS
  <2>4. sources' = [sources EXCEPT ![i] = [r EXCEPT !.rev = n]]
    BY <1>8
  <2> HIDE DEF n, q, i, r
  <2>5. /\ [r EXCEPT !.rev = n] \in Row
        /\ [r EXCEPT !.rev = n].tenant = sources[i].tenant
        /\ [r EXCEPT !.rev = n].rev = sources[i].rev + 1
    BY <1>2, <1>4, <2>1 DEF Row
  <2>6. /\ Grow /\ sources'[i] = [r EXCEPT !.rev = n]
        /\ \A j \in Ids \ {i} : sources'[j] = sources[j]
    BY <1>2, <2>4, <2>5, WrittenRow
  <2>7. ASSUME NEW c \in Columns, sources'[i][c] # sources[i][c]
        PROVE  c \in req[a].set \/ r.rev < sources[i].rev
    <3>1. sources'[i][c] = r[c]
      BY <1>2, <2>6 DEF Columns, Row
    <3>2. r[c] # sources[i][c]
      BY <2>7, <3>1
    <3>3. r.rev \in Nat
      BY <1>2 DEF Row
    <3>4. CASE r.rev = sources[i].rev
      BY <1>2, <1>3, <1>4, <3>2, <3>4, SameColumn
    <3>5. QED
      BY <1>3, <1>4, <3>3, <3>4
  <2>8. Undo
    BY <1>1, <2>2, <2>3, <2>6, <2>7 DEF Undo
  <2>9. QED
    BY <1>5, <1>6, <2>6, <2>8 DEF Moves
<1>9. sources' = sources \/ sources' = [sources EXCEPT ![i] = q]
  <2>1. CASE Conflicts(r, i)
    BY <2>1 DEF EditSave
  <2>2. CASE ~Conflicts(r, i)
    BY <2>2 DEF EditSave
  <2>3. QED
    BY <2>1, <2>2
<1>10. QED
  BY <1>7, <1>8, <1>9

LEMMA RequestFailsMoves ==
  ASSUME RegistryInv, NEW a \in Admins, RequestFails(a)
  PROVE  Moves
<1>1. sources' = sources /\ seed' = seed /\ Fault
      /\ req' = [req EXCEPT ![a] = Idle]
  BY DEF RequestFails
<1>2. Remember
  BY <1>1, IdleRemembers
<1>3. SeedOK(seed') /\ count' \in Counts
  BY <1>1, CountsAre DEF RegistryInv
<1>4. QED
  BY <1>1, <1>2, <1>3, SameRows DEF Moves

(* A deletion is a request, and changes one column.                        *)
LEMMA DeleteMoves ==
  ASSUME RegistryInv, NEW i \in Ids, Delete(i)
  PROVE  Moves
<1>1. sources[i] \in Row
  BY DEF RegistryInv, Ids
<1>2. sources[i].rev \in Nat
  BY <1>1 DEF Row
<1> DEFINE n == sources[i].rev + 1
           r == [sources[i] EXCEPT !.active = FALSE, !.rev = n]
<1>3. sources' = [sources EXCEPT ![i] = r]
  BY DEF Delete, RegistryInv, Ids
<1>4. /\ r \in Row /\ r.tenant = sources[i].tenant
      /\ r.name = sources[i].name /\ r.category = sources[i].category
      /\ r.rev = sources[i].rev + 1
  <2>1. n \in Nat /\ n = sources[i].rev + 1
    BY <1>2
  <2> HIDE DEF n
  <2>2. QED
    BY <1>1, <2>1 DEF Row
<1> HIDE DEF r
<1>5. /\ Grow /\ sources'[i] = r
      /\ \A j \in Ids \ {i} : sources'[j] = sources[j]
  BY <1>3, <1>4, WrittenRow
<1>6. count' \in Counts /\ count'.requests > count.requests
  BY CountsAre DEF Delete
<1>7. ASSUME NEW j \in Ids, NEW c \in Columns, sources'[j][c] # sources[j][c]
      PROVE  c = "active"
  BY <1>4, <1>5, <1>7 DEF Columns
<1>8. Undo
  BY <1>6, <1>7 DEF Undo
<1>9. Remember /\ SeedOK(seed')
  <2>1. req' = req /\ seed' = seed /\ SeedOK(seed)
    BY DEF Delete, RegistryInv
  <2>2. QED
    BY <2>1 DEF Remember
<1>10. QED
  BY <1>5, <1>6, <1>8, <1>9 DEF Moves

(* The scripts take nothing from a row that is there.                      *)
LEMMA ScriptMoves ==
  ASSUME RegistryInv,
         \/ \E s \in Scripts : RunScript(s)
         \/ \E r \in seed.left : SeedInsert(r) \/ SeedSkips(r)
         \/ Interrupt
  PROVE  Moves
<1>1. SeedOK(seed) /\ SeedOK(NoScript)
  BY DEF RegistryInv, SeedOK, NoScript
<1>2. ASSUME NEW r \in seed.left, Inserted(r)
      PROVE  SeedOK(seed')
  BY <1>1, <1>2 DEF Inserted, SeedOK
<1>3. ASSUME NEW s \in Scripts, RunScript(s)
      PROVE  Moves
  <2>1. /\ seed' = [tenant |-> s.tenant, left |-> s.rows] /\ Admit
        /\ sources' = sources /\ req' = req
    BY <1>3 DEF RunScript
  <2>2. s.tenant \in Tenants /\ s.rows \in SUBSET Seeds
    BY SourceRegistryAssumption DEF Seeds
  <2>3. SeedOK(seed')
    BY <2>1, <2>2 DEF SeedOK
  <2>4. Remember /\ count' \in Counts
    BY <2>1, CountsAre DEF Remember
  <2>5. QED
    BY <2>1, <2>3, <2>4, SameRows DEF Moves
<1>4. ASSUME NEW r \in seed.left, SeedInsert(r)
      PROVE  Moves
  <2> DEFINE row == NewRow(seed.tenant, r.name, r.category)
  <2>1. row \in Row
    BY <1>1 DEF SeedOK, Seeds, NewRow, Row
  <2>2. /\ sources' = sources \/ sources' = Append(sources, row)
        /\ Inserted(r) /\ req' = req /\ count' = count
    BY <1>4 DEF SeedInsert
  <2> HIDE DEF row
  <2>3. Grow /\ Undo
    BY <2>1, <2>2, SameRows, AppendedRow
  <2>4. Remember /\ SeedOK(seed') /\ count' \in Counts
    BY <1>2, <2>2, CountsAre DEF Remember
  <2>5. QED
    BY <2>3, <2>4 DEF Moves
<1>5. ASSUME NEW r \in seed.left, SeedSkips(r)
      PROVE  Moves
  <2>1. Fault /\ Inserted(r) /\ sources' = sources /\ req' = req
    BY <1>5 DEF SeedSkips
  <2>2. Remember /\ SeedOK(seed') /\ count' \in Counts
    BY <1>2, <2>1, CountsAre DEF Remember
  <2>3. QED
    BY <2>1, <2>2, SameRows DEF Moves
<1>6. CASE Interrupt
  <2>1. seed' = NoScript /\ sources' = sources /\ req' = req /\ count' = count
    BY <1>6 DEF Interrupt
  <2>2. Remember /\ SeedOK(seed') /\ count' \in Counts
    BY <1>1, <2>1, CountsAre DEF Remember
  <2>3. QED
    BY <2>1, <2>2, SameRows DEF Moves
<1>7. QED
  BY <1>3, <1>4, <1>5, <1>6

LEMMA RegistryMoves ==
  ASSUME RegistryInv, RegistryStep
  PROVE  Moves
<1>1. CASE \E a \in Admins : \E t \in Tenants, n \in Names, k \in Categories :
             CreateRead(a, NewRow(t, n, k))
  BY <1>1, CreateMoves
<1>2. CASE \E a \in Admins : \E i \in Ids, set \in SUBSET Columns :
             \E new \in [name : Names, category : Categories,
                         active : BOOLEAN] : EditRead(a, i, new, set)
  BY <1>2, EditReadMoves
<1>3. CASE \E a \in Admins : CreateSave(a)
  BY <1>3, CreateMoves
<1>4. CASE \E a \in Admins : EditSave(a)
  BY <1>4, EditSaveMoves
<1>5. CASE \E a \in Admins : RequestFails(a)
  BY <1>5, RequestFailsMoves
<1>6. CASE \E i \in Ids : Delete(i)
  BY <1>6, DeleteMoves
<1>7. CASE \/ \E s \in Scripts : RunScript(s)
           \/ \E r \in seed.left : SeedInsert(r) \/ SeedSkips(r)
           \/ Interrupt
  BY <1>7, ScriptMoves
<1>8. QED
  BY <1>1, <1>2, <1>3, <1>4, <1>5, <1>6, <1>7 DEF RegistryStep

(* Steps that leave the registry alone, but for the count of requests.     *)
LEMMA StillMoves ==
  ASSUME RegistryInv, UNCHANGED <<sources, req, seed>>,
         Admit \/ Fault \/ UNCHANGED count
  PROVE  Moves
<1>1. Remember /\ SeedOK(seed') /\ count' \in Counts
  BY CountsAre DEF Remember, RegistryInv
<1>2. QED
  BY <1>1, SameRows DEF Moves
-----------------------------------------------------------------------------
(***************************************************************************)
(* The requests to enrich, next to the registry and the token.             *)
(***************************************************************************)
TrigOf(ids) == [pc : {"idle", "list", "types"}, types : SUBSET BusinessTypes,
                found : SUBSET ids]
JobOf(ids) == [tenant : Tenants \cup {NoTenant}, source : ids,
               trigger : TriggerTypes]

GlobalInv ==
  /\ RegistryInv
  /\ trig \in [Triggers -> TrigOf(Ids)]
  /\ jobs \subseteq JobOf(Ids)
  /\ JobsOfTheirTenant

(* Of a job that a step makes, the source has the tenant.                  *)
NewJobs ==
  \A j \in jobs' \ jobs : /\ j \in JobOf(Ids)
                          /\ j.tenant = sources[j.source].tenant
Trigs == trig' \in [Triggers -> TrigOf(Ids)]

(* The trigger type of the use case is none, so it makes no job.           *)
LEMMA EnrichmentMakesNone ==
  ASSUME NEW i
  PROVE  NewScrapingJob(NoTenant, i, "enrichment") = {}
BY DEF NewScrapingJob, TriggerTypes

LEMMA ManualJob ==
  ASSUME NEW t \in Tenants, NEW i \in Ids,
         NEW j \in NewScrapingJob(t, i, "manual")
  PROVE  j \in JobOf(Ids) /\ j.tenant = t /\ j.source = i
BY DEF NewScrapingJob, TriggerTypes, JobOf

LEMMA TriggerStepIs ==
  ASSUME GlobalInv, NEW c \in Triggers, TriggerStep(c)
  PROVE  /\ UNCHANGED <<sources, req, seed>> /\ jobs' = jobs
         /\ Admit \/ Fault \/ UNCHANGED count
         /\ Trigs
         /\ [TokenNext]_tokenVars
<1>1. trig \in [Triggers -> TrigOf(Ids)] /\ trig[c] \in TrigOf(Ids)
  BY DEF GlobalInv
<1>2. c \in Clients
  BY GlobalEnrichmentAssumption
<1>3. CASE StartTrigger(c)
  <2>1. /\ Admit /\ Begin(c, 1) /\ UNCHANGED <<sources, req, seed, jobs>>
        /\ trig' = [trig EXCEPT ![c].pc = "list"]
    BY <1>3 DEF StartTrigger
  <2>2. 1 \in 1 .. MaxLoop
    BY ServiceTokenAssumption
  <2>3. TokenNext
    BY <1>2, <2>1, <2>2 DEF TokenNext
  <2>4. Trigs
    BY <1>1, <2>1 DEF Trigs, TrigOf
  <2>5. QED
    BY <2>1, <2>3, <2>4
<1>4. CASE Listed(c)
  <2>1. PICK types \in SUBSET BusinessTypes :
          trig' = [trig EXCEPT
                     ![c] = [@ EXCEPT !.pc = "types", !.types = types]]
    BY <1>4 DEF Listed
  <2>2. End(c) /\ UNCHANGED <<registryVars, jobs>>
    BY <1>4 DEF Listed
  <2>3. TokenNext
    BY <1>2, <2>2 DEF TokenNext
  <2>4. Trigs
    BY <1>1, <2>1 DEF Trigs, TrigOf
  <2>5. QED
    BY <2>2, <2>3, <2>4 DEF registryVars
<1>5. CASE ListFailed(c)
  <2>1. /\ End(c) /\ UNCHANGED <<registryVars, jobs>>
        /\ trig' = [trig EXCEPT ![c] = NoTrigger]
    BY <1>5 DEF ListFailed
  <2>2. TokenNext
    BY <1>2, <2>1 DEF TokenNext
  <2>3. Trigs
    BY <1>1, <2>1 DEF Trigs, TrigOf, NoTrigger
  <2>4. QED
    BY <2>1, <2>2, <2>3 DEF registryVars
<1>6. CASE Finish(c)
  <2>1. /\ UNCHANGED <<registryVars, tokenVars, jobs>>
        /\ trig' = [trig EXCEPT ![c] = NoTrigger]
    BY <1>6 DEF Finish
  <2>2. Trigs
    BY <1>1, <2>1 DEF Trigs, TrigOf, NoTrigger
  <2>3. QED
    BY <2>1, <2>2 DEF registryVars
<1>7. ASSUME NEW type \in trig[c].types, NextType(c, type)
      PROVE  /\ UNCHANGED <<registryVars, tokenVars, jobs>> /\ Trigs
  <2> DEFINE active == {i \in Ids : /\ sources[i].active
                                    /\ sources[i].category = type}
  <2>1. /\ UNCHANGED <<registryVars, tokenVars, jobs>>
        /\ trig' = [trig EXCEPT ![c].types = @ \ {type}, ![c].found = active]
    BY <1>7 DEF NextType
  <2>2. active \subseteq Ids
    OBVIOUS
  <2> HIDE DEF active
  <2> DEFINE left == trig[c].types \ {type}
             u == [trig[c] EXCEPT !.types = left, !.found = active]
  <2>3. left \subseteq BusinessTypes
    BY <1>1 DEF TrigOf
  <2>4. trig' = [trig EXCEPT ![c] = u]
    BY <1>1, <2>1
  <2> HIDE DEF left
  <2>5. u \in TrigOf(Ids)
    BY <1>1, <2>2, <2>3 DEF TrigOf
  <2> HIDE DEF u
  <2>6. Trigs
    BY <1>1, <2>4, <2>5 DEF Trigs
  <2>7. QED
    BY <2>1, <2>6
<1>8. ASSUME NEW type \in trig[c].types, SkipType(c, type)
      PROVE  /\ UNCHANGED <<sources, req, seed, tokenVars, jobs>>
             /\ Fault /\ Trigs
  <2>1. /\ Fault /\ UNCHANGED <<sources, req, seed, tokenVars, jobs>>
        /\ trig' = [trig EXCEPT ![c].types = @ \ {type}]
    BY <1>8 DEF SkipType
  <2>2. Trigs
    BY <1>1, <2>1 DEF Trigs, TrigOf
  <2>3. QED
    BY <2>1, <2>2
<1>9. ASSUME NEW i \in trig[c].found, CreateJob(c, i)
      PROVE  /\ UNCHANGED <<registryVars, tokenVars, jobs>> /\ Trigs
  <2>1. /\ UNCHANGED <<registryVars, tokenVars>>
        /\ jobs' = jobs \cup NewScrapingJob(NoTenant, i, "enrichment")
        /\ trig' = [trig EXCEPT ![c].found = @ \ {i}]
    BY <1>9 DEF CreateJob
  <2>2. jobs' = jobs
    BY <2>1, EnrichmentMakesNone
  <2>3. Trigs
    BY <1>1, <2>1 DEF Trigs, TrigOf
  <2>4. QED
    BY <2>1, <2>2, <2>3
<1>10. QED
  BY <1>3, <1>4, <1>5, <1>6, <1>7, <1>8, <1>9 DEF TriggerStep, registryVars

(* Every step is one of the registry, or leaves it alone; one of the       *)
(* token's, or leaves it alone; and makes no job for a foreign tenant.     *)
LEMMA GlobalStepIs ==
  ASSUME GlobalInv, [Next]_vars
  PROVE  /\ Moves
         /\ [TokenNext]_tokenVars
         /\ Trigs \/ UNCHANGED trig
         /\ NewJobs
<1>1. RegistryInv
  BY DEF GlobalInv
<1>2. ASSUME UNCHANGED <<sources, req, seed>>,
             Admit \/ Fault \/ UNCHANGED count
      PROVE  Moves
  BY <1>1, <1>2, StillMoves
<1>3. ASSUME jobs' = jobs
      PROVE  NewJobs
  BY <1>3 DEF NewJobs
<1>4. CASE RegistryStep /\ UNCHANGED <<tokenVars, trig, jobs>>
  BY <1>1, <1>3, <1>4, RegistryMoves
<1>5. CASE Tick /\ UNCHANGED <<registryVars, trig, jobs>>
  BY <1>2, <1>3, <1>5 DEF registryVars, TokenNext
<1>6. ASSUME NEW c \in Clients, CallStep(c), UNCHANGED <<registryVars, trig, jobs>>
      PROVE  Moves /\ TokenNext /\ UNCHANGED trig /\ NewJobs
  BY <1>2, <1>3, <1>6 DEF registryVars, TokenNext
<1>7. ASSUME NEW c \in Triggers, TriggerStep(c)
      PROVE  Moves /\ [TokenNext]_tokenVars /\ Trigs /\ NewJobs
  BY <1>2, <1>3, <1>7, TriggerStepIs
<1>8. ASSUME NEW c \in Clients \ Triggers, EndLookup(c)
      PROVE  Moves /\ TokenNext /\ UNCHANGED trig /\ NewJobs
  <2>1. End(c) /\ UNCHANGED <<registryVars, trig, jobs>>
    BY <1>8 DEF EndLookup
  <2>2. QED
    BY <1>2, <1>3, <2>1 DEF registryVars, TokenNext
<1>9. ASSUME NEW c \in Clients \ Triggers, NEW n \in 1 .. MaxLoop,
             StartLookup(c, n)
      PROVE  Moves /\ TokenNext /\ UNCHANGED trig /\ NewJobs
  <2>1. Admit /\ Begin(c, n) /\ UNCHANGED <<sources, req, seed, trig, jobs>>
    BY <1>9 DEF StartLookup
  <2>2. QED
    BY <1>2, <1>3, <2>1 DEF TokenNext
<1>10. ASSUME NEW t \in Tenants, NEW i \in Ids, TriggerScrape(t, i)
       PROVE  /\ Moves /\ UNCHANGED tokenVars /\ UNCHANGED trig
              /\ NewJobs
  <2>1. /\ sources[i].tenant = t /\ Admit
        /\ jobs' = jobs \cup NewScrapingJob(t, i, "manual")
        /\ UNCHANGED <<sources, req, seed, tokenVars, trig>>
    BY <1>10 DEF TriggerScrape
  <2>2. NewJobs
    BY <2>1, ManualJob DEF NewJobs
  <2>3. QED
    BY <1>2, <2>1, <2>2
<1>11. CASE UNCHANGED vars
  BY <1>2, <1>3, <1>11 DEF vars, registryVars
<1>12. QED
  BY <1>4, <1>5, <1>6, <1>7, <1>8, <1>9, <1>10, <1>11 DEF Next

LEMMA GlobalKeeps ==
  ASSUME GlobalInv, [Next]_vars
  PROVE  GlobalInv'
<1>1. Moves /\ NewJobs /\ (Trigs \/ UNCHANGED trig)
  BY GlobalStepIs
<1>2. /\ RegistryInv
      /\ trig \in [Triggers -> TrigOf(Ids)]
      /\ jobs \subseteq JobOf(Ids) /\ JobsOfTheirTenant
  BY DEF GlobalInv
<1>3. RegistryInv'
  BY <1>1, <1>2, MovesKeep
<1>4. /\ Ids \subseteq Ids'
      /\ \A i \in Ids : sources'[i].tenant = sources[i].tenant
  BY <1>1 DEF Moves, Grow
<1>5. /\ TrigOf(Ids) \subseteq TrigOf(Ids')
      /\ JobOf(Ids) \subseteq JobOf(Ids')
  BY <1>4 DEF TrigOf, JobOf
<1>6. trig' \in [Triggers -> TrigOf(Ids')]
  BY <1>1, <1>2, <1>5 DEF Trigs
<1>7. ASSUME NEW j \in jobs'
      PROVE  j \in JobOf(Ids) /\ j.tenant = sources[j.source].tenant
  <2>1. CASE j \in jobs
    BY <1>2, <2>1 DEF JobsOfTheirTenant
  <2>2. CASE j \notin jobs
    BY <1>1, <2>2 DEF NewJobs
  <2>3. QED
    BY <2>1, <2>2
<1>8. jobs' \subseteq JobOf(Ids')
  BY <1>5, <1>7
<1>9. JobsOfTheirTenant'
  <2> SUFFICES ASSUME NEW j \in jobs'
               PROVE  j.tenant = sources'[j.source].tenant
    BY DEF JobsOfTheirTenant
  <2>1. j.source \in Ids
    BY <1>7 DEF JobOf
  <2>2. QED
    BY <1>4, <1>7, <2>1
<1>10. QED
  BY <1>3, <1>6, <1>8, <1>9 DEF GlobalInv

LEMMA GlobalInit ==
  Init => GlobalInv
<1> SUFFICES ASSUME Init
             PROVE  GlobalInv
  OBVIOUS
<1>1. /\ sources = << >> /\ req = [a \in Admins |-> Idle]
      /\ seed = NoScript /\ count = [requests |-> 0, faults |-> 0]
      /\ trig = [c \in Triggers |-> NoTrigger] /\ jobs = {}
  BY DEF Init, RegistryInit
<1>2. sources \in Seq(Row)
  BY <1>1
<1>3. SeedOK(seed) /\ count \in Counts
  BY <1>1 DEF SeedOK, NoScript, Counts
<1>4. /\ req \in [Admins -> MemoryOf(Ids)]
      /\ \A a \in Admins : Copied(req[a], sources)
  BY <1>1 DEF MemoryOf, Copied, Idle
<1>5. trig \in [Triggers -> TrigOf(Ids)]
  BY <1>1 DEF TrigOf, NoTrigger
<1>6. jobs \subseteq JobOf(Ids) /\ JobsOfTheirTenant
  BY <1>1 DEF JobsOfTheirTenant
<1>7. QED
  BY <1>2, <1>3, <1>4, <1>5, <1>6 DEF GlobalInv, RegistryInv

LEMMA GlobalAlways ==
  Spec => []GlobalInv
<1>1. GlobalInv /\ [Next]_vars => GlobalInv'
  BY GlobalKeeps
<1>2. QED
  BY <1>1, GlobalInit, PTL DEF Spec
-----------------------------------------------------------------------------
(* Of the composition, what the token does is a behaviour of TokenSpec:    *)
(* the requests to enrich and the other callers use it as it expects, and  *)
(* nothing else touches it.                                                *)
THEOREM TokenOfMany ==
  Spec => TokenSpec
<1>1. Init => TokenInit
  BY DEF Init
<1>2. GlobalInv /\ [Next]_vars => [TokenNext]_tokenVars
  BY GlobalStepIs
<1>3. QED
  BY <1>1, <1>2, GlobalAlways, PTL DEF Spec, TokenSpec

(* So what is proved of the token holds in the composition: no loop ends   *)
(* for its token's age too early ...                                       *)
THEOREM LoopsLastTheLead ==
  Spec => [](TokenTypeOK /\ RefusedOnlyLate)
BY TokenOfMany, TokensLastTheLead, PTL

(* ... and no more tokens are made than one for each period.               *)
THEOREM OneTokenForAll ==
  Spec => []MintedOncePerPeriod
BY TokenOfMany, OneTokenPerPeriod, PTL

(* Registry, token, requests and jobs keep their shape, and what refers to *)
(* a source refers to one that is there.                                   *)
THEOREM GlobalTypeCorrect ==
  Spec => []TypeOK
<1>1. GlobalInv /\ TokenTypeOK => TypeOK
  <2> SUFFICES ASSUME GlobalInv, TokenTypeOK
               PROVE  TypeOK
    OBVIOUS
  <2>1. MemoryOf(Ids) = Memory
    BY DEF MemoryOf, Memory
  <2>2. RegistryTypeOK
    BY <2>1 DEF GlobalInv, RegistryInv, RegistryTypeOK, SeedOK, Seeds, Counts
  <2>3. QED
    BY <2>2 DEF TypeOK, GlobalInv, TrigOf, JobOf
<1>2. QED
  BY <1>1, GlobalAlways, LoopsLastTheLead, PTL

(* No job carries another tenant than its source's: the trigger that       *)
(* crosses tenants makes none, and the tenant of a row never changes.      *)
THEOREM JobsKeepTheirTenant ==
  Spec => []JobsOfTheirTenant
<1>1. GlobalInv => JobsOfTheirTenant
  BY DEF GlobalInv
<1>2. QED
  BY <1>1, GlobalAlways, PTL

(* What an administrator has set is undone by nothing but a request that   *)
(* says so, or one that read the source before it was last written.        *)
THEOREM OnlyStaleCopiesUndo ==
  Spec => OnlyStaleUpdatesUndo
<1>1. GlobalInv /\ [Next]_vars => Undo
  BY GlobalStepIs DEF Moves
<1>2. GlobalInv /\ [Next]_vars =>
        [\A i \in Ids, c \in Columns :
           sources'[i][c] # sources[i][c] =>
             \/ \E a \in Admins :
                  /\ req[a].pc = "update" /\ req[a].id = i /\ req'[a] = Idle
                  /\ c \in req[a].set \/ req[a].row.rev < sources[i].rev
             \/ c = "active" /\ count'.requests > count.requests]_registryVars
  BY <1>1 DEF Undo
<1>3. QED
  BY <1>2, GlobalAlways, PTL DEF Spec, OnlyStaleUpdatesUndo
=============================================================================
