-------------------------- MODULE CatalogRefinement --------------------------
(***************************************************************************)
(* The transactions of Catalog implement the steps of ProductCatalog.      *)
(***************************************************************************)
EXTENDS Catalog

Promise == INSTANCE ProductCatalog WITH
  Product <- Product, Reference <- Reference,
  products <- products, archived <- archived, references <- references

(* Imports of the same SKUs, deletions whose checks are out of date when   *)
(* they act, and transactions that die look like single steps: an import   *)
(* appears at once and never with a SKU that is taken, what is deleted had *)
(* no reference and was not archived, and what is archived has batches     *)
(* (services of apps/catalog).                                             *)
ImplementsPromise == Promise!Spec

===============================================================================
