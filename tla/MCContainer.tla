------------------------------ MODULE MCContainer ------------------------------
(* Layouts with one or two components and the signature over everything:   *)
(* headers with and without a key, also one of another type than the row   *)
(* says, every mix of small, large and default alignments, regions that    *)
(* are measured, roomy or too small, and the layouts that create refuses.  *)
EXTENDS Container

Short == <<<<"a">>>>
Long  == <<<<"a">>, <<"b">>, <<"c">>>>

(* A component as "sign" makes it, with the hash in the header only.       *)
Signed == LzFile("Lz4", Long)

MCHeader(auth, key, a) == [auth |-> auth, key |-> key, alignment |-> a]
MCRow(name, content, alg, auth, key, a, size) ==
  [name |-> name, content |-> content, alg |-> alg, auth |-> auth, key |-> key,
   alignment |-> a, size |-> size]

Headers ==
  {MCHeader("NONE", NoKey, a) : a \in {2, 4, 64}} \cup
  {MCHeader("RSA2048", key, a) : key \in {"k2048", "k3072"}, a \in {0, 4}} \cup
  {MCHeader("SHA2_256", "k2048", 4), MCHeader("RSA2048", NoKey, 4)}

Kernels ==
  {MCRow("KRNL", <<Long>>, "Dummy", "NONE", NoKey, a, size) :
     a \in {0, 2, 16}, size \in {0, 24}} \cup
  {MCRow("KRNL", <<Short>>, "Lz4", "RSA2048", key, a, 0) :
     key \in {"k2048", "k3072", NoKey}, a \in {0, 16}} \cup
  {MCRow("KRNL", <<Long>>, "Lz4", "SHA2_384", NoKey, 4, 0),
   MCRow("KRNL", <<Long>>, "Dummy", "SHA2_256", NoKey, 0, 4)}

Initrds ==
  {MCRow("INRD", <<Short>>, "Dummy", "NONE", NoKey, a, 0) : a \in {0, 16}} \cup
  {MCRow("INRD", <<>>, "Lz4", "RSA3072", "k3072", 0, 0),
   MCRow("KRNL", <<Short>>, "Dummy", "NONE", NoKey, 0, 0)}

Signatures ==
  {MCRow(Mono, content, "Dummy", auth, NoKey, 0, 0) :
     content \in {<<>>, <<Short>>}, auth \in {"NONE", "SHA2_256"}} \cup
  {MCRow(Mono, <<>>, "Dummy", "RSA2048", "k2048", 0, 0)}

MCLayouts ==
  {[header |-> h, rows |-> rows] :
     h \in Headers,
     rows \in {<<k>> : k \in Kernels}
         \cup {<<k, i>> : k \in Kernels, i \in Initrds}
         \cup {<<k, i, s>> : k \in Kernels, i \in Initrds, s \in Signatures}
         \cup {<<s, k>> : k \in Kernels, s \in Signatures}}

MCContents == {Long, Signed}
MCAlgorithms == {"Dummy", "Lz4"}
=============================================================================
