---------------------------- MODULE MCComponents ----------------------------
(* Instance of Components for TLC.                                         *)
EXTENDS Components

\* Trees with matching lines at every depth and an entry of every kind.
File(n) == [kind |-> "file", value |-> n]
Directory(n) == [kind |-> "dir", value |-> n]
Other(kind) == [kind |-> kind, value |-> 0]
TheTrees ==
    { << <<File(1), Directory(2), File(2), Directory(3)>>,
         <<File(1), Other("link"), File(0)>>,
         <<Other("large"), File(1), Other("hidden")>> >>,
      << <<Directory(2), Other("hidden"), Other("binary"), File(1)>>,
         <<File(1), Directory(3), Other("unreadable")>>,
         <<File(2), File(0)>> >> }
TheLimits == [scan : {2, 4}, directories : 1 .. 3, files : {2, 5, 6}, matches : {1, 3, 4, 6}]

\* Messages of which several fit, some fit together and one fits nowhere; the last
\* turn's are in nobody's context.
TheSizes == << {1, 3}, {1, 3, 5}, {1} >>
=============================================================================
