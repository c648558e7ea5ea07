--------------------------- MODULE MCLruCacheUse ---------------------------
(* Instances of LruCacheUse for TLC: the option sets the program uses. *)
EXTENDS LruCacheUse

Sized == Options(2, 0, FALSE, FALSE)         \* the fake-ip pool
SizedAged == Options(2, 1, FALSE, FALSE)     \* the sniffer's skip list, sticky sessions
AgedRenewed == Options(0, 1, FALSE, TRUE)    \* the TUIC defragmenter
InUse == {Sized, SizedAged, AgedRenewed}
=============================================================================
