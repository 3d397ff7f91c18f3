-------------------------- MODULE MCTrackerAnnounce --------------------------
(***************************************************************************)
(* A buffer with room for two peers and one byte more, as the real one has *)
(* room for 1703 peers and two bytes; lists where the UDP URL is missing,  *)
(* second, repeated, or has a path.                                        *)
(***************************************************************************)
EXTENDS TrackerAnnounce

MCUrl(p, path) == [protocol |-> p, path |-> path]

MCTorrents ==
    {[announce_list |-> l, announce |-> MCUrl("http", TRUE)] :
        l \in { <<>>,
                <<MCUrl("http", TRUE), MCUrl("other", FALSE)>>,
                <<MCUrl("udp", TRUE), MCUrl("udp", FALSE)>>,
                <<MCUrl("http", TRUE), MCUrl("udp", FALSE), MCUrl("udp", TRUE)>> }}
    \cup {[announce_list |-> <<>>, announce |-> MCUrl("udp", FALSE)],
          [announce_list |-> <<MCUrl("udp", FALSE)>>, announce |-> NoUrl]}

MCReplies == [size : {0, 4, 6, 7}, zeros : {{}, {2}, {5}}]

=============================================================================
