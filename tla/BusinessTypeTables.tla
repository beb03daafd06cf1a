------------------------- MODULE BusinessTypeTables -------------------------
(***************************************************************************)
(* Which business types a category stands for.  Two tables of the service  *)
(* answer that: one for the category of a source, which the upsert of a    *)
(* scraped page reads, and one for the category of a product, which        *)
(* auto-match reads.  Both are given here by type.                         *)
(***************************************************************************)
EXTENDS Integers, Sequences, FiniteSets

(* categoryToBusinessType, turned around: the source categories of a type. *)
SourceCategories ==
  [almacen |-> {"supermercado", "almacen", "congelados", "desayuno",
     "golosinas", "aceites", "panaderia", "snacks", "desayuno_merienda",
     "kiosco_cordiez", "dia_almacen", "dia_desayuno", "dia_congelados",
     "carr_almacen", "carr_desayuno", "carr_panaderia", "carr_congelados",
     "anon_aceites_aderezos", "anon_arroz_pastas", "anon_desayunos",
     "anon_congelados", "farm_hogar_alimentos", "coop_almacen"},
   vinoteca |-> {"bebidas", "dia_bebidas", "carr_bebidas", "anon_gaseosas",
     "coop_bebidas"},
   veterinaria |-> {"mascotas", "dia_mascotas", "carr_mascotas",
     "easy_jardin_mascotas", "puppis_general"},
   fiambreria |-> {"lacteos", "fiambres_quesos", "dia_frescos",
     "carr_lacteos", "anon_lacteos", "anon_fiambres", "coop_frescos"},
   kiosco |-> {"kiosco"},
   limpieza |-> {"limpieza", "limpieza_hogar", "cuidado_ropa",
     "dia_limpieza", "carr_limpieza", "anon_limpieza", "coop_limpieza"},
   bazar |-> {"bazar", "coop_casa_jardin", "easy_bazar_deco",
     "easy_muebles"},
   supermercado |-> {"supermercado_mayorista"},
   electrodomesticos |-> {"electronica", "electrodomesticos", "tecnologia",
     "easy_electrodomesticos"},
   farmacia |-> {"farmacia_perfumeria", "cuidado-personal",
     "cuidado_personal", "bebes", "carr_farmacia", "anon_farmacia",
     "farm_farmacia", "farm_medicamentos", "farm_cuidado_personal"},
   perfumeria |-> {"perfumeria", "dia_perfumeria", "farm_cuidado_piel",
     "farm_cuidado_capilar", "farm_perfumes", "farm_maquillaje",
     "coop_perfumeria"},
   ferreteria |-> {"ferreteria_construccion", "construccion_hogar",
     "construccion_ferreteria", "sanitarios", "easy_ferreteria",
     "easy_herramientas", "easy_construccion", "easy_plomeria",
     "easy_aberturas", "easy_pisos", "easy_pinturas", "easy_banos_cocinas",
     "easy_jardin_herramientas", "blaisten_general"},
   ropa |-> {"indumentaria", "calzado"},
   electricidad |-> {"easy_electricidad", "easy_iluminacion"},
   piletas |-> {"easy_jardin", "easy_jardin_muebles_ext",
     "easy_jardin_parrillas", "easy_jardin_piletas",
     "easy_jardin_tiempolibre", "easy_jardin_camping",
     "easy_jardin_armados"}]

(* MapCategoryToBusinessType: the types it may give; there is one at most. *)
MapCategory(category) ==
  {code \in DOMAIN SourceCategories : category \in SourceCategories[code]}

(* categoryMapping: the keywords of a category, best first.                *)
CategoryMapping ==
  {
   [keywords |-> <<"almacen">>, of |-> {
     "aceites", "arroz", "fideos", "harinas", "azucar", "sal", "conservas",
     "salsas", "condimentos", "especias", "bebidas", "jugos", "cervezas",
     "cereales", "legumbres", "pastas", "cafe", "te", "yerba",
     "infusiones", "dulces", "mermeladas", "almacen", "pescados"}],
   [keywords |-> <<"almacen", "kiosco">>, of |-> {
     "snacks", "galletitas", "golosinas", "chocolates", "gaseosas",
     "aguas"}],
   [keywords |-> <<"congelados">>, of |-> {"congelados"}],
   [keywords |-> <<"fiambreria", "almacen">>, of |-> {"lacteos", "leches"}],
   [keywords |-> <<"fiambreria">>, of |-> {
     "yogures", "quesos", "fiambres"}],
   [keywords |-> <<"carniceria", "almacen">>, of |-> {"carnes", "pollo"}],
   [keywords |-> <<"verduleria", "almacen">>, of |-> {
     "frutas", "verduras"}],
   [keywords |-> <<"veterinaria", "almacen">>, of |-> {"mascotas"}],
   [keywords |-> <<"panaderia", "almacen">>, of |-> {
     "panaderia", "panificados"}],
   [keywords |-> <<"vinoteca", "almacen">>, of |-> {"vinos"}],
   [keywords |-> <<"limpieza">>, of |-> {
     "limpieza", "productos de limpieza"}],
   [keywords |-> <<"perfumeria", "farmacia">>, of |-> {
     "higiene", "perfumeria", "cuidado personal", "cosmeticos"}],
   [keywords |-> <<"farmacia">>, of |-> {"bebes"}],
   [keywords |-> <<"electrodomesticos">>, of |-> {
     "electronica", "tecnologia", "electro"}],
   [keywords |-> <<"libreria">>, of |-> {"libreria", "papeleria"}],
   [keywords |-> <<"jugueteria">>, of |-> {"jugueteria", "juguetes"}],
   [keywords |-> <<"peluqueria">>, of |-> {"peluqueria"}],
   [keywords |-> <<"piletas">>, of |-> {"piletas", "jardin"}],
   [keywords |-> <<"electricidad">>, of |-> {"electricidad"}]}

(* titleBrandSignals: the keywords of a word in a title or a brand.        *)
TitleBrandSignals ==
  {
   [keywords |-> <<"farmacia", "perfumeria">>, of |-> {
     "serum", "crema", "protector solar", "acondicionador", "micelar",
     "hidratacion", "facial", "capilar", "corporal", "labial",
     "maquillaje", "fps", "garnier", "loreal", "vichy", "la roche",
     "cerave", "maybelline", "neutrogena", "caviahue", "eucerin",
     "capilatis"}],
   [keywords |-> <<"farmacia", "perfumeria", "supermercado">>, of |-> {
     "shampoo", "desodorante", "nivea", "balsamo"}],
   [keywords |-> <<"farmacia">>, of |-> {
     "vitamina", "preservativo", "preservativos"}],
   [keywords |-> <<"electronica">>, of |-> {
     "heladera", "lavarropas", "microondas", "aire acondicionado",
     "freezer", "freidora", "aspiradora", "notebook", "celular",
     "smart tv", "led"}]}

(* The keywords of an entry of a table: at most one sequence of them.      *)
KeywordsIn(table, entry) ==
  {group.keywords : group \in {g \in table : entry \in g.of}}
EntriesOf(table) == UNION {group.of : group \in table}
=============================================================================
