------------------------------ MODULE MCFiles ------------------------------
(***************************************************************************)
(* Volumes for TLC.  A sector of the table has 16 entries, so next_cluster *)
(* looks at the right one for the clusters 0..3 and 16..19.  The directory *)
(* is in the clusters 2 and 18, with the entries of files in the first     *)
(* sector of each.                                                         *)
(***************************************************************************)
EXTENDS Files, TLC

MCEOC == 90
File0(name, cluster, size) ==
  [kind |-> "file", name |-> name, cluster |-> cluster, size |-> size]
Other(kind) == [kind |-> kind]
Sector(entries) == [i \in 0..(Len(entries) - 1) |-> entries[i + 1]]

\* File a is in the clusters 3 and 17, which are in two sectors of the table; its
\* entry is in the second cluster of the directory, which is full.  File b, in
\* 16, is never opened, and empty has no cluster.
MCFat == [c \in 0..31 |-> CASE c = 2 -> 18 [] c = 3 -> 17 [] c < 2 \/ c \in 16..18 -> MCEOC + 9
                              [] OTHER -> 0]
MCDirectory ==
  (2 :> (0 :> Sector(<<Other("label"), File0("b", 16, 1)>>) @@
         1 :> Sector(<<Other("deleted"), Other("directory")>>))) @@
  (18 :> (0 :> Sector(<<File0("empty", 0, 0), File0("a", 3, 5)>>) @@
          1 :> Sector(<<Other("deleted"), Other("deleted")>>)))

\* File a is in the clusters 5 and 6.
FarFat == [MCFat EXCEPT ![5] = 6, ![6] = MCEOC + 9]
FarDirectory ==
  (2 :> (0 :> Sector(<<Other("label"), File0("a", 5, 6), Other("end")>>) @@
         1 :> Sector(<<Other("end")>>)))

Filled(clusters) ==
  [c \in clusters |-> [s \in Sectors |-> [u \in 0..(SectorUnits - 1) |-> <<c, s, u>>]]]
MCDiskData == Filled({3, 16, 17})
FarDiskData == Filled({5, 6})

x == <<0, 0, 0>>
MCSeeks == {-1}
MCFlags == {{"R"}, {"R", "W"}}
MCOut == <<x, x>>
=============================================================================
