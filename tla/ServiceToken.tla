---------------------------- MODULE ServiceToken ----------------------------
(***************************************************************************)
(* The token with which the service calls the product catalogue, and its   *)
(* callers.  ServiceTokenProvider keeps one token, which all callers share *)
(* and the first that finds it too old replaces.  A caller takes a token   *)
(* once and may then send many requests with it.                           *)
(*                                                                         *)
(* The unit of time is the timeout of a request (15 s), so time passes at  *)
(* most once while a request is waited for.  The token lives for 240 units *)
(* and is replaced in the last 20; both are parameters here.               *)
(***************************************************************************)
EXTENDS Naturals

CONSTANTS
  Clients,       \* the callers
  TTL,           \* the life of a token (DefaultTTL)
  RefreshLead,   \* it is not handed out when less than this is left
  MaxLoop,       \* the most requests a caller sends with one token
  MaxTime        \* bound: units of time that pass

ASSUME ServiceTokenAssumption ==
  /\ RefreshLead \in Nat /\ TTL \in Nat /\ RefreshLead < TTL
  /\ MaxLoop \in Nat \ {0} /\ MaxTime \in Nat

VARIABLES
  now,      \* the time
  expires,  \* when the cached token expires, or 0: there is none yet
  use,      \* use[c]: how far caller c is with its token
  mints     \* history: the tokens made so far

tokenVars == <<now, expires, use, mints>>

(* sent is the number of requests that have been answered, waited the time *)
(* since the current one was sent.                                         *)
Use == [pc : {"idle", "check", "lock", "send", "wait", "done", "failed"},
        expires : Nat, left : 0 .. MaxLoop, sent : Nat, waited : 0 .. 1,
        taken : Nat]      \* history: when it took the token

Asks(pc, n) == [pc |-> pc, expires |-> 0, left |-> n, sent |-> 0,
                waited |-> 0, taken |-> 0]
NoUse == Asks("idle", 0)

TokenInit ==
  /\ now = 0 /\ expires = 0 /\ mints = 0
  /\ use = [c \in Clients |-> NoUse]

(* Mutant of IsFresh: a token is good until it expires.                    *)
IsAlive == expires > now

IsFresh == expires > now + RefreshLead

Takes(c, token) ==
  use' = [use EXCEPT ![c] = [@ EXCEPT !.pc = "send", !.expires = token,
                                      !.taken = now]]

(* A caller that will send n requests asks for the token.                  *)
Begin(c, n) ==
  /\ use[c].pc = "idle"
  /\ use' = [use EXCEPT ![c] = Asks("check", n)]
  /\ UNCHANGED <<now, expires, mints>>

(* Token, under the read lock.                                             *)
ReadCached(c) ==
  /\ use[c].pc = "check"
  /\ IF IsFresh THEN Takes(c, expires)
                ELSE use' = [use EXCEPT ![c].pc = "lock"]
  /\ UNCHANGED <<now, expires, mints>>

(* Mutant of Mint: without the second look at the cached token.            *)
MintAnyway(c) ==
  /\ use[c].pc = "lock"
  /\ expires' = now + TTL
  /\ mints' = mints + 1
  /\ Takes(c, now + TTL)
  /\ UNCHANGED now

(* Token, under the write lock: another caller may have come first.  What  *)
(* happens under the lock is one step, for nothing in it blocks.           *)
Mint(c) ==
  /\ use[c].pc = "lock"
  /\ IF IsFresh
     THEN /\ Takes(c, expires)
          /\ UNCHANGED <<expires, mints>>
     ELSE /\ expires' = now + TTL
          /\ mints' = mints + 1
          /\ Takes(c, now + TTL)
  /\ UNCHANGED now

(* Send a request with the token taken at the start of the loop, or have   *)
(* it refused (401), which ends the loop with an error.                    *)
SendRequest(c) ==
  /\ use[c].pc = "send"
  /\ use' = [use EXCEPT ![c].pc = IF use[c].expires > now THEN "wait"
                                                          ELSE "failed"]
  /\ UNCHANGED <<now, expires, mints>>

Counted(u, pc) == [pc |-> pc, expires |-> u.expires, left |-> u.left - 1,
                   sent |-> u.sent + 1, waited |-> 0, taken |-> u.taken]

(* The answer: the next request, the end, or an error.                     *)
Answered(c) ==
  /\ use[c].pc = "wait"
  /\ \E pc \in {IF use[c].left = 1 THEN "done" ELSE "send", "failed"} :
       use' = [use EXCEPT ![c] = Counted(use[c], pc)]
  /\ UNCHANGED <<now, expires, mints>>

(* The caller leaves the loop.                                             *)
End(c) ==
  /\ use[c].pc \in {"done", "failed"}
  /\ use' = [use EXCEPT ![c] = NoUse]
  /\ UNCHANGED <<now, expires, mints>>

(* Time passes only while requests are waited for, each at most once, or   *)
(* while nobody is about to send one.                                      *)
Tick ==
  /\ now < MaxTime
  /\ \A c \in Clients : use[c].pc # "send" /\ use[c].waited = 0
  /\ now' = now + 1
  /\ use' = [c \in Clients |-> IF use[c].pc = "wait"
                               THEN [use[c] EXCEPT !.waited = 1] ELSE use[c]]
  /\ UNCHANGED <<expires, mints>>

CallStep(c) == ReadCached(c) \/ Mint(c) \/ SendRequest(c) \/ Answered(c)
TokenNext ==
  \/ Tick
  \/ \E c \in Clients : \/ CallStep(c) \/ End(c)
                        \/ \E n \in 1 .. MaxLoop : Begin(c, n)

TokenSpec == TokenInit /\ [][TokenNext]_tokenVars
-----------------------------------------------------------------------------
(***************************************************************************)
(* Properties.                                                             *)
(***************************************************************************)
TokenTypeOK ==
  /\ now \in Nat /\ expires \in Nat /\ mints \in Nat
  /\ use \in [Clients -> Use]

(* A token is not kept past its expiry unnoticed (Token, refreshLead): a   *)
(* request is refused for its age only when more than RefreshLead requests *)
(* of the same loop have been answered before it.  GetProductsByIDs sends  *)
(* up to 100 with one token, five times the lead.                          *)
RefusedOnlyLate ==
  \A c \in Clients :
    use[c].pc = "send" /\ use[c].expires <= now => use[c].sent > RefreshLead

(* However many callers find the token too old at once, one makes the new  *)
(* one: there is no more than one token for each TTL - RefreshLead.        *)
MintedOncePerPeriod ==
  mints * (TTL - RefreshLead) <= now + (TTL - RefreshLead)
=============================================================================
