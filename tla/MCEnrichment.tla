---------------------------- MODULE MCEnrichment ----------------------------
(* Small instances of Enrichment for the model checker.                    *)
EXTENDS Enrichment

CONSTANTS soda, hotwheels, alitas   \* products
CONSTANTS photo, crowd, scraped     \* images of ML, OFF and Firecrawl

(* A product with a barcode, whose title in ML fits and in OFF does not; a *)
(* toy that ML does not have; and chicken by weight, under whose name the  *)
(* sources would show a sauce.                                             *)
Names == [i \in {soda, hotwheels, alitas} |->
            CASE i = soda      -> {"coca", "cola", "lt"}
              [] i = hotwheels -> {"auto", "hot", "wheels"}
              [] i = alitas    -> {"alitas", "pollo", "kg"}]
Services ==
  [s \in Sources |-> [i \in {soda, hotwheels, alitas} |->
     CASE s = "ml" /\ i # hotwheels   -> photo
       [] s = "off" /\ i # alitas     -> crowd
       [] s = "firecrawl"             -> scraped
       [] s = "dalle"                 -> Drawn
       [] OTHER                       -> NoImage]]
Titles ==
  [s \in Sources |-> [i \in {soda, hotwheels, alitas} |->
     CASE s = "ml" /\ i = soda        -> {"coca", "cola", "zero"}
       [] s = "ml"                    -> {"salsa", "para", "alitas"}
       [] s = "off" /\ i = hotwheels  -> {"hot", "wheels", "rojo"}
       [] s = "off"                   -> {"cola", "paso", "toros"}
       [] OTHER                       -> {}]]

(* OFF files the soda and the toy under the same code.                     *)
ObjectKeys ==
  [s \in Sources |-> [i \in {soda, hotwheels, alitas} |->
     IF s = "off" /\ i # alitas THEN "7790001"
     ELSE CASE i = soda      -> "7790001"
            [] i = hotwheels -> "Auto_Hot_Wheels"
            [] i = alitas    -> "Alitas_x_kg"]]

Listed == <<soda, hotwheels, alitas>>
=============================================================================
