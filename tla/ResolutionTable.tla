--------------------------- MODULE ResolutionTable ---------------------------
(***************************************************************************)
(* The table product_image_resolutions and the statements the service runs *)
(* on it (PostgresEnrichmentRepository): which image a product was given,  *)
(* and which URLs were rejected for it.                                    *)
(***************************************************************************)
EXTENDS ImageSources

CONSTANTS ReplicateCost, DalleCost   \* cents per image (20, 4)

ASSUME CostAssumption == ReplicateCost \in Nat /\ DalleCost \in Nat

VARIABLE row     \* row[i]: the row of product i

URLs == Images \cup {Drawn, NoImage}

(* exists tells whether there is a row.                                    *)
Row   == [exists : BOOLEAN, raw : URLs, rejected : SUBSET URLs, cost : Nat]
NoRow == [exists |-> FALSE, raw |-> NoImage, rejected |-> {}, cost |-> 0]

IsResolved(i) == row[i].exists /\ row[i].raw # NoImage

(* Save: an upsert that leaves rejected_urls alone.                        *)
Save(i, image, cost) ==
  row' = [row EXCEPT ![i].exists = TRUE, ![i].raw = image, ![i].cost = cost]

(* Mutant of RejectImage: raw_url keeps the rejected URL.                  *)
RejectKeepsURL(i, image) ==
  row' = [row EXCEPT ![i].exists = TRUE, ![i].rejected = @ \cup {image}]

(* RejectImage: the URL joins rejected_urls, and raw_url is emptied,       *)
(* whatever it has become since the URL was read.                          *)
RejectImage(i, image) ==
  row' = [row EXCEPT ![i].exists = TRUE, ![i].raw = NoImage,
                     ![i].rejected = @ \cup {image}]

GetRejectedURLs(i)  == row[i].rejected
GetCurrentRawURL(i) == row[i].raw
=============================================================================
