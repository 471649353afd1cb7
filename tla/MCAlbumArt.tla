----------------------------- MODULE MCAlbumArt -----------------------------
(* Instances of AlbumArt for TLC. *)
EXTENDS AlbumArt

CONSTANTS k1, k2, k3, h1, h2

\* One song has both pictures, the others only one, embedded or in the folder.
MCAlbums == {[k \in Keys |-> CASE k = k1 -> [readpicture |-> 2, albumart |-> 2]
                               [] k = k2 -> [readpicture |-> 1, albumart |-> 0]
                               [] OTHER  -> [readpicture |-> 0, albumart |-> 1]]}
=============================================================================
