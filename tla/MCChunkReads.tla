---------------------------- MODULE MCChunkReads ----------------------------
(***************************************************************************)
(* Versions of a file: overlapping chunks on two pages, of which the       *)
(* second repeats the end of the first and the third lies within them;     *)
(* chunks side by side with a gap, in a section longer than a read of it,  *)
(* beside a caption; chunks of an old version, without offsets or parents; *)
(* and nothing, when the file is out of scope.                             *)
(***************************************************************************)
EXTENDS ChunkReads

CONSTANTS s, t

Body(id, no, parent, page, from, to) ==
  [id |-> id, kind |-> "body", no |-> no, parent |-> parent, page |-> page,
   from |-> from, to |-> to, text |-> [i \in 1..to - from |-> from + i]]

Old(id, no) ==
  [id |-> id, kind |-> "body", no |-> no, parent |-> NoParent, page |-> NoPage,
   from |-> NoOffset, to |-> NoOffset, text |-> <<-10 - no>>]

Caption(id) == [Old(id, 0) EXCEPT !.kind = "caption"]

MCVersions ==
  {{Body(4, 0, s, 1, 0, 4), Body(2, 1, s, 1, 3, 6), Body(3, 2, t, 2, 4, 5), Body(1, 3, t, 2, 5, 8)},
   {Body(2, 0, s, NoPage, 0, 2), Body(4, 1, s, NoPage, 3, 5), Body(3, 2, s, NoPage, 5, 6),
    Caption(1)},
   {Old(4, 0), Old(2, 1)}, {}}

MCReads ==
  {[kind |-> k, anchor |-> [kind |-> "body", no |-> n], window |-> 1,
    offset |-> o, limit |-> 2, max |-> m] :
     k \in {"file", "window", "parent"}, n \in {0, 2}, o \in {-1, 0, 2, 5}, m \in {0}}
  \cup {[kind |-> "document", anchor |-> [kind |-> "body", no |-> 0], window |-> 0,
         offset |-> o, limit |-> 0, max |-> m] : o \in {-1, 0}, m \in {0, 3}}

=============================================================================
