---------------------------- MODULE MCWzArchive ----------------------------
(* Instances of WzArchive for TLC, with offsets of eight bits. *)
EXTENDS WzArchive

Img(n) == [kind |-> "img", size |-> n]
Dir(es) == [kind |-> "dir", entries |-> es]
To(i, h) == [tag |-> "node", node |-> i, head |-> h]
Link(h) == [tag |-> "link", head |-> h]
Null == [tag |-> "null"]

\* Directories within directories, entries of every kind in front of others, imgs
\* on both sides of the limit of a one byte size, and one that two directories name.
SomeTrees == {
    <<Dir(<<To(2, 3), Null, To(3, 4)>>), Dir(<<To(4, 3), To(5, 8)>>), Img(3), Img(7), Img(2)>>,
    <<Dir(<<Link(2), To(3, 3), To(2, 3)>>), Img(4), Dir(<<To(4, 3)>>), Dir(<<Null, To(5, 3)>>), Img(9)>>,
    <<Dir(<<To(2, 3), To(3, 4), To(4, 3)>>), Dir(<<Null, To(3, 2)>>), Img(3), Img(2)>>,
    <<Dir(<< >>)>> }
=============================================================================
