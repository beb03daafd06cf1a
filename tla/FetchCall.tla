----------------------------- MODULE FetchCall ------------------------------
(***************************************************************************)
(* One fetch of a source's products, from ExecuteScrapingUseCase down to   *)
(* the adapter that makes the requests: what the source asks for, the      *)
(* context that a shutdown cancels, and the answer the use case gets.      *)
(***************************************************************************)
EXTENDS Naturals, Integers, Sequences, FiniteSets

CONSTANTS
  Requests,       \* the kinds of source that are fetched, of Request below
  NoPrice         \* not a price: the product comes without one

Methods    == {"extract", "", "scrape", "http_json", "crawl", "unknown"}
Strategies == {"", "range", "page_number", "page_increment"}

(* What the source and the configuration say: firecrawl_method, the        *)
(* crawl_config, and whether FIRECRAWL_API_KEY is set.  cap is MaxProducts *)
(* (0: none, as the use case leaves it).                                   *)
Request == [method : Methods, strategy : Strategies,
            category : Nat, key : BOOLEAN, cap : Nat]

ASSUME FetchCallAssumption == Requests \subseteq Request

VARIABLES
  request,     \* the source this fetch is for
  ctx,         \* "live", or "cancelled" by a shutdown
  reply        \* the outcome: a sequence of products, or an error

NoReply == [end |-> "none", products |-> << >>]
Fails   == reply' = [end |-> "failed", products |-> << >>]
Answers(products) == reply' = [end |-> "ok", products |-> products]

Pending == reply.end = "none"

CallInit == /\ request \in Requests
            /\ ctx = "live"
            /\ reply = NoReply

(* fetchProducts: which adapter gets the call.                             *)
IsExtract == request.method \in {"extract", ""}
IsScrape  == request.method = "scrape"
IsHTTP    == request.method = "http_json"

(* FetchHTTPJSON of the Firecrawl adapter: Coop, or VTEX by default.       *)
IsCoop == IsHTTP /\ request.strategy = "page_increment"
IsVTEX == IsHTTP /\ ~IsCoop

(* "crawl" is not supported yet, and nothing else is known.                *)
Unsupported == ~(IsExtract \/ IsScrape \/ IsHTTP)

(* SIGTERM: main cancels the context of the scheduler and its workers.     *)
Cancel == /\ ctx = "live" /\ Pending
          /\ ctx' = "cancelled"
          /\ UNCHANGED <<request, reply>>
=============================================================================
