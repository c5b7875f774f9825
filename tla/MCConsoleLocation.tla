------------------------- MODULE MCConsoleLocation -------------------------
(* Console location runs: a hydration of two pools and two sequences among  *)
(* tools, and a scan among tools, over a tree with a missing index and a    *)
(* pool that lists one container.                                           *)
EXTENDS ConsoleLocation

MCTree == {Root, <<1>>, <<1, 3>>, <<3>>, <<3, 1>>, <<13>>, <<13, 1>>, <<22>>,
           <<Sequence, 1>>, <<Sequence, 2>>}
MCContainers == {<<13>>}

Pool(p) == [kind |-> "pool", to |-> <<p>>]
Cues(ids) == [kind |-> "cues", to |-> ids]
Tool(kind, by, p) == [kind |-> kind, by |-> by, to |-> <<p>>]
Property(path) == [kind |-> "property", to |-> path]
Scan(to, max, stop) == [kind |-> "scan", to |-> to, max |-> max, stop |-> stop]

MCTasks == 1..3
MCMixes == {<<Pool(22), Pool(13), Cues(<<1, 2>>)>>,
            <<Pool(22), Cues(<<2>>), Tool("slots", "index", 13)>>,
            <<Pool(22), Tool("names", "keyword", 99), Property(<<3, 1>>)>>,
            <<Scan(Root, 3, 2), Tool("navigate", "index", 1), Property(<<3, 2>>)>>,
            <<Scan(<<13>>, 2, 1), Tool("names", "index", 22), Tool("slots", "keyword", 13)>>}

\* A hydration of two pools, alone.
PoolsOnly == {<<Pool(22), Pool(13)>>}
=============================================================================
