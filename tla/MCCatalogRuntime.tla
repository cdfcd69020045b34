-------------------------- MODULE MCCatalogRuntime --------------------------
(* Two keys, room for one partition, two revisions of each kind.  One pair  *)
(* of snapshots conflicts, one names a tool twice; one notice has no        *)
(* audience revision.                                                       *)
EXTENDS CatalogRuntime

CONSTANTS k, l

MCKeys == {k, l}

At(src, aud, cat, tools) == [src |-> src, aud |-> aud, cat |-> cat, tools |-> tools]
MCSnapshots ==
    { At(0, 0, "c0", "x"), At(0, 1, "c0", "x"), At(1, 0, "c1", "y"),
      At(1, 1, "c1", "y"), At(1, 1, "c2", "y"), At(1, 1, "c1", "twice") }
MCNotices ==
    { [src |-> s.src, aud |-> s.aud, cat |-> s.cat] : s \in MCSnapshots }
        \cup {[src |-> 1, aud |-> -1, cat |-> "c1"]}

=============================================================================
