---------------------------- MODULE MCFeedSocket ----------------------------
(* Small feeds: followBlocks() and the followAccount() of one or two accounts. *)
EXTENDS FeedSocket

CONSTANTS blocks, alice, bob

MCOne   == {alice}
MCNone  == {}
MCTwo   == {blocks, alice}
MCThree == {blocks, alice, bob}
=============================================================================
