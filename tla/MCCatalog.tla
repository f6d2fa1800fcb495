------------------------------- MODULE MCCatalog -------------------------------
(***************************************************************************)
(* Constants for the run of Catalog.                                       *)
(***************************************************************************)
EXTENDS CatalogRefinement

On(op) == [op |-> op]
File1 == [op |-> "import", file |-> <<"c", "a", "b">>]
File2 == [op |-> "import", file |-> <<"b", Malformed, "a", "b", "x">>]

(* The SKU x is there at first. *)
MCRequests ==
  {On("archive"), On("delete"), On("update"), On("batch"), On("line"), On("drop_line"),
   [op |-> "create", sku |-> "a"], File1, File2}

===============================================================================
