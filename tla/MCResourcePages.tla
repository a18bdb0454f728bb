----------------------------- MODULE MCResourcePages -----------------------------
(* ResourcePages for every behaviour of the catalogue, over two rows.                *)
EXTENDS ResourcePages, PageCatalog

CONSTANTS r1, x

\* One record to begin with, and room for one more.
MCStart == [r \in Rows |-> IF r = r1 THEN x ELSE Absent]

MCBehaviours == CatalogStories

================================================================================
