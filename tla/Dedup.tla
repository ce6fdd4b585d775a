--------------------------------- MODULE Dedup ---------------------------------
(***************************************************************************)
(* Near-duplicate documents (src/knowledge_index/ingestion/dedup.py):      *)
(* signatures in a banded index, clusters by union-find.  A signature is a *)
(* tuple of minimal hashes; hashing itself is abstracted, so that any two  *)
(* signatures may agree in any of their places.  Documents are numbered in *)
(* the order of their ids.                                                 *)
(***************************************************************************)
EXTENDS Totals, Integers, SequencesExt

CONSTANTS
  Papers,     \* documents
  HashValues, \* values of a minimal hash
  Bands,      \* bands of a signature
  Rows,       \* hashes of a band
  Agreeing,   \* hashes that agree in near-duplicates, at least (threshold * num_perm)
  MaxAdds     \* bound: documents added

\* Near-duplicates disagree in fewer places than there are bands, as with the
\* defaults: in 12 places of 128, in 32 bands.
ASSUME DedupAssumption ==
  /\ Papers \subseteq Nat /\ {Bands, Rows, Agreeing, MaxAdds} \subseteq Nat \ {0}
  /\ Bands * Rows < Agreeing + Bands

VARIABLES
  signatures, \* the documents added, in order, with their latest signatures
  buckets,    \* the banded index
  adds        \* history: calls of add()

dedupVars == <<signatures, buckets, adds>>

Signatures == [1 .. Bands * Rows -> HashValues]
Band(sig, band) == [r \in 1 .. Rows |-> sig[(band - 1) * Rows + r]]
Known == {signatures[i].doc : i \in DOMAIN signatures}
SignatureOf(doc) ==
  signatures[CHOOSE i \in DOMAIN signatures : signatures[i].doc = doc].sig

\* _estimated_jaccard at least the threshold.
Near(sigA, sigB) == Cardinality({i \in DOMAIN sigA : sigA[i] = sigB[i]}) >= Agreeing

\* _candidates: who shares a bucket; buckets keep what a document once was.
Similar(sig) == {b.doc : b \in {x \in buckets : x.key = Band(sig, x.band)}}

Neighbours(doc) ==
  {other \in Similar(SignatureOf(doc)) \ {doc} : Near(SignatureOf(doc), SignatureOf(other))}

DedupInit == signatures = << >> /\ buckets = {} /\ adds = 0

\* add(), whose answer is the new document's neighbours before it is put in.
AddDocument(doc, sig) ==
  /\ adds < MaxAdds
  /\ signatures' = IF doc \in Known
                   THEN [i \in DOMAIN signatures |->
                           IF signatures[i].doc = doc THEN [doc |-> doc, sig |-> sig]
                           ELSE signatures[i]]
                   ELSE Append(signatures, [doc |-> doc, sig |-> sig])
  /\ buckets' = buckets \cup {[band |-> b, key |-> Band(sig, b), doc |-> doc] : b \in 1 .. Bands}
  /\ adds' = adds + 1

DedupNext == \E doc \in Papers, sig \in Signatures : AddDocument(doc, sig)

DedupSpec == DedupInit /\ [][DedupNext]_dedupVars

-----------------------------------------------------------------------------
\* clusters(): union-find.

\* From parent to parent, none of which is greater than its child, up to the root.
Find(parent, x) ==
  LET up[n \in 0 .. x] == IF n = 0 THEN x ELSE parent[up[n - 1]]
  IN  up[x]

\* Mutant: the nodes are linked, not their roots.
UnionOfNodes(parent, x, y) == [parent EXCEPT ![Max({x, y})] = Min({x, y})]

Join(parent, x, y) ==
  LET rx == Find(parent, x) ry == Find(parent, y)
  IN  IF rx = ry THEN parent ELSE [parent EXCEPT ![Max({rx, ry})] = Min({rx, ry})]

\* The pairs to link, document by document.
Links ==
  LET pairs == {l \in (DOMAIN signatures) \X Known : l[2] \in Neighbours(signatures[l[1]].doc)}
  IN  InOrder(pairs, {p \in pairs \X pairs : p[1][1] < p[2][1] \/ (p[1][1] = p[2][1] /\ p[1][2] < p[2][2])})

Parents ==
  LET links == Links
      joined[n \in 0 .. Len(links)] ==
        IF n = 0 THEN [d \in Known |-> d]
        ELSE Join(joined[n - 1], signatures[links[n][1]].doc, links[n][2])
  IN  joined[Len(links)]

Clusters ==
  LET parent == Parents
      Members(root) == {d \in Known : Find(parent, d) = root}
      roots == {r \in Known : Cardinality(Members(r)) > 1}
  IN  [r \in roots |-> Members(r)]

\* iter_unique: of every cluster the first id.
Kept ==
  LET clusters == Clusters
      kept == {i \in DOMAIN signatures : \A r \in DOMAIN clusters :
                 signatures[i].doc \in clusters[r] => signatures[i].doc = Min(clusters[r])}
      places == InOrder(kept, {p \in kept \X kept : p[1] < p[2]})
  IN  [n \in DOMAIN places |-> signatures[places[n]]]

-----------------------------------------------------------------------------
\* Properties

\* Reference: the components of "near", over all pairs of documents: whoever is in
\* every set with the document that has with a document also those near to it.
Closed(S) ==
  \A d \in S, e \in Known : Near(SignatureOf(d), SignatureOf(e)) => e \in S
Component(doc) ==
  {e \in Known : \A S \in SUBSET Known : doc \in S /\ Closed(S) => e \in S}

\* The banded index misses no near-duplicate and the union-find no link: the
\* clusters are the components of similarity, under their least ids, also after
\* documents have been added again with another text.
ClustersAreComponents ==
  LET component == [d \in Known |-> Component(d)]
      shared == {d \in Known : component[d] # {d} /\ \A e \in component[d] : d <= e}
  IN  Clusters = [r \in shared |-> component[r]]

\* Exactly one document of every component survives.
OneKeptOfEach ==
  LET kept == Kept IN
  \A d \in Known : LET component == Component(d) IN
    Cardinality({i \in DOMAIN kept : kept[i].doc \in component}) = 1

\* Clusters are what the pairs connect, in whatever order they come, and of each one
\* document stays.
DedupSound == ClustersAreComponents /\ OneKeptOfEach

=============================================================================
