--------------------------- MODULE MCFileConduit ---------------------------
(* Small instances of FileConduit for TLC.  Files are sent two units at a time
   and offsets wrap at four: the last packet may be short, and the longest file
   is longer than the offset can say. *)
EXTENDS FileConduit

CONSTANTS t1, t2

MCWorks ==
    [t \in Threads |->
        IF t = t1 THEN {Work("File", <<5>>), Work("File", <<0>>), Work("Tree", <<3, Missing>>)}
        ELSE {Work("Fetch", <<4>>), Work("Fetch", <<1>>),
              Work("Touch", <<>>), Work("List", <<>>)}]
=============================================================================
