----------------------------- MODULE MCListener -----------------------------
(* Reduction for the run of Listener and Mdns.                             *)
EXTENDS Mdns

\* States that differ only in what the objects of freeList remember of their
\* last use are one: Listen overwrites all of it, and until then nothing but
\* listeningPcb is read.
Remembered(l) ==
  IF l \in ToSet(freeList)
  THEN [NewListener EXCEPT !.listening = obj[l].listening] ELSE obj[l]

ActiveView ==
  <<activeList, freeList, created, hung, connected, currentService, services,
    behind, [l \in Ids |-> Remembered(l)]>>
=============================================================================
