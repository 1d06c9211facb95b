--------------------------- MODULE MCCatalogSync ---------------------------
(* Small instances of CatalogSync.                                         *)
EXTENDS CatalogSync, TLC

CONSTANTS u1, k1, k2, a, b, xa, xb, m, x

\* Two files of one download, listed by different calls, in one directory of
\* /movies and one of /all.
MCPathsOf == k1 :> {a} @@ k2 :> {b}
MCAllOf == a :> xa @@ b :> xb
MCUnder == m :> {a, b} @@ x :> {xa, xb}
MCBefore == a :> {} @@ b :> {a} @@ xa :> {} @@ xb :> {xa}
MCKindOf == k1 :> 1 @@ k2 :> 2
MCDownloads == {{k1, k2}}

\* A download and the one that replaced it: two keys with one path.
SharedPathsOf == k1 :> {a} @@ k2 :> {a}
SharedDownloads == {{k1}, {k2}}

=============================================================================
