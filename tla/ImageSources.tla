---------------------------- MODULE ImageSources ----------------------------
(***************************************************************************)
(* Where the image of a product comes from: the cascade of sources, what   *)
(* each of them is asked, and the guards that discard an answer            *)
(* (findProductData).  The services behind the sources are external: what  *)
(* they have for a product is a constant.  A name and a title are sets of  *)
(* tokens, as tokenize leaves them.                                        *)
(***************************************************************************)
EXTENDS Integers, Sequences, FiniteSets

CONSTANTS
  Items,        \* products of the global catalogue
  Barcoded,     \* those with an EAN
  Branded,      \* those with a brand
  ByWeight,     \* those whose name says "x kg", "granel", "docena", ...
  Name,         \* Name[i]: the tokens of its name
  Stopwords,    \* tokens that do not count (and pure numbers)
  Images,       \* images that services have, by their URL
  Drawn,        \* not one of them: an image DALL-E has drawn
  NoImage,      \* the empty URL
  Configured,   \* sources whose key is in the environment
  Has,          \* Has[s][i]: the image that the service of source s gives for
                \* what it is asked about i, or NoImage (of Perplexity: the
                \* image MercadoLibre has under the valid barcode it names)
  Title         \* Title[s][i]: the tokens of the title it comes with

(* The cascade, in its order (NewEnrichmentModule).                        *)
Cascade == <<"ml", "off", "firecrawl", "perplexity", "dalle">>
Sources == {Cascade[n] : n \in DOMAIN Cascade}

ASSUME ImageSourcesAssumption ==
  /\ Barcoded \subseteq Items /\ Branded \subseteq Items
  /\ ByWeight \subseteq Items
  /\ Name \in [Items -> SUBSET STRING]
  /\ Drawn \notin Images /\ NoImage \notin Images \cup {Drawn}
  /\ Configured \subseteq Sources /\ "off" \in Configured
  /\ Has \in [Sources -> [Items -> Images \cup {Drawn, NoImage}]]
  /\ \A i \in Items : Has["dalle"][i] \in {Drawn, NoImage}
  /\ Title \in [Sources -> [Items -> SUBSET STRING]]
-----------------------------------------------------------------------------
(* ProductData: an image, the title it comes with and the source it names. *)
Data    == [source : Sources, image : Images \cup {Drawn, NoImage},
            title : SUBSET STRING]
Nothing == [source |-> "ml", image |-> NoImage, title |-> {}]

Offer(s, i) == IF s \in Configured
               THEN [source |-> s, image |-> Has[s][i], title |-> Title[s][i]]
               ELSE Nothing

(* The first result of a search for the barcode, or for the name and what  *)
(* is known of the product.                                                *)
MLAnswer(i)  == Offer("ml", i)
OFFAnswer(i) == Offer("off", i)

(* Firecrawl gives the question back as the name of the product: its own   *)
(* name, or its barcode.                                                   *)
FirecrawlAnswer(i) ==
  [Offer("firecrawl", i) EXCEPT
     !.title = IF i \in Barcoded THEN {"barcode"} ELSE Name[i]]

(* Perplexity names a barcode, and MercadoLibre is asked for it; it is not *)
(* asked about a product that has one.                                     *)
PerplexityAnswer(i) ==
  IF i \in Barcoded \/ "ml" \notin Configured THEN Nothing
  ELSE [Offer("perplexity", i) EXCEPT !.source = "ml"]

(* DALL-E draws from a name, and cannot look for a barcode.                *)
DalleAnswer(i) == IF i \in Barcoded THEN Nothing
                  ELSE [Offer("dalle", i) EXCEPT !.title = Name[i]]

Answer(s, i) == CASE s = "ml"         -> MLAnswer(i)
                  [] s = "off"        -> OFFAnswer(i)
                  [] s = "firecrawl"  -> FirecrawlAnswer(i)
                  [] s = "perplexity" -> PerplexityAnswer(i)
                  [] s = "dalle"      -> DalleAnswer(i)
-----------------------------------------------------------------------------
(* A product without an EAN that has no brand or is sold by weight: real   *)
(* sources show something else under such a name.                          *)
IsGenericBulk(i) == i \notin Barcoded /\ (i \notin Branded \/ i \in ByWeight)

(* At least 0.6 of the tokens that count are in the title.                 *)
SignificantTokens(name) == name \ Stopwords
IsRelevantMatch(name, title) ==
  LET query == SignificantTokens(name) IN
  10 * Cardinality(query \cap title) >= 6 * Cardinality(query)

IsRejectedURL(url, rejected) == url \in rejected

(* Mutant of Accepts: the list of rejected URLs is not looked at.          *)
AcceptsRejected(s, i, rejected) ==
  /\ IsGenericBulk(i) => s = "dalle"
  /\ Answer(s, i).image # NoImage
  /\ \/ s = "dalle" \/ Answer(s, i).title = {}
     \/ IsRelevantMatch(Name[i], Answer(s, i).title)

(* The guards on what source s answers for i.  Every drawing is a new one, *)
(* so that one that was rejected never comes back.                         *)
Accepts(s, i, rejected) ==
  /\ IsGenericBulk(i) => s = "dalle"
  /\ Answer(s, i).image # NoImage
  /\ ~IsRejectedURL(Answer(s, i).image, rejected \ {Drawn})
  /\ \/ s = "dalle" \/ Answer(s, i).title = {}
     \/ IsRelevantMatch(Name[i], Answer(s, i).title)

(* What findProductData may end with: the answer of the first source that  *)
(* is accepted, or of a later one when those before it fail.               *)
Found(i, rejected, mayFail) ==
  LET good == {n \in DOMAIN Cascade : Accepts(Cascade[n], i, rejected)}
  IN  {Answer(Cascade[n], i) :
         n \in {m \in good : mayFail \/ \A k \in good : m <= k}}
=============================================================================
