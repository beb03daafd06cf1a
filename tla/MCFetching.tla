----------------------------- MODULE MCFetching -----------------------------
(* Small instances of Fetching for the model checker.                      *)
EXTENDS Fetching, TLC

Ask == [method |-> "http_json", strategy |-> "", category |-> 0,
        key |-> FALSE, cap |-> 0]

(* One source of each kind the repository has, and those it refuses.       *)
EveryKind ==
  {Ask, [Ask EXCEPT !.cap = 3],
   [Ask EXCEPT !.strategy = "page_increment", !.category = 2],
   [Ask EXCEPT !.strategy = "page_increment"],
   [Ask EXCEPT !.method = "extract", !.key = TRUE],
   [Ask EXCEPT !.method = "extract"],
   [Ask EXCEPT !.method = "scrape", !.key = TRUE],
   [Ask EXCEPT !.method = "crawl", !.key = TRUE]}

(* Five products, two of which the store may come to list later; prices in *)
(* the order precio, precio_promo, precio_anterior.                        *)
Prices == (1 :> <<5, 4, NoPrice>>) @@ (2 :> <<NoPrice, 3, NoPrice>>)
       @@ (3 :> <<NoPrice, NoPrice, 6>>) @@ (4 :> <<NoPrice, 0, NoPrice>>)
       @@ (5 :> <<2, NoPrice, NoPrice>>) @@ (6 :> <<1, 1, 1>>)
       @@ (7 :> <<7, NoPrice, 8>>)

(* A page and a half, two pages, and one more than the offset limit.       *)
ShortOrLong == {<< >>, <<1, 2, 3>>, <<1, 2, 3, 4>>, <<1, 2, 3, 4, 5>>}
=============================================================================
