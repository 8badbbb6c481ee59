------------------------ MODULE MCDocumentVectorize ------------------------
(***************************************************************************)
(* A good payload, and what differs from it in one group of fields.        *)
(***************************************************************************)
EXTENDS DocumentVectorize

Object(uri, bucket, key, size) ==
    [uri |-> uri, bucket |-> bucket, key |-> key, sizeBytes |-> size]
References == {Object(u, b, k, n) : u \in {"absent", "null", "odd", "u"},
                                 b \in {"absent", "b"}, k \in {"absent", "k", "odd"},
                                 n \in {None, Odd, 1}}

Piece(id, i, text, storage) == [chunkId |-> id, documentId |-> "absent", index |-> i,
                                text |-> text, tokenCount |-> None, storage |-> storage]

Artifact(type, required, dimensions, unknown) ==
    [artifactType |-> type, required |-> required, dimensions |-> dimensions,
     unknown |-> unknown]

Good == [routeId |-> "r", documentId |-> "d", manifestVersion |-> "m",
         destination |-> "vectorize", score |-> "half",
         document |-> [documentId |-> "d", fingerprint |-> "absent", storage |-> NoStorage,
                       documentType |-> "absent", schemaId |-> "absent",
                       schemaVersion |-> "absent"],
         chunks |-> <<Piece("a", 0, "text", NoStorage)>>, storageReferences |-> <<>>,
         documentType |-> "absent", schemaId |-> "absent", schemaVersion |-> "absent",
         artifacts |-> <<>>, correlationId |-> "absent", dimensions |-> None,
         metadata |-> "absent"]

Values == {"absent", "null", "odd", "x"}
Stored  == Object("absent", "b", "k", None)

\* What comes in a message.
Messages ==
    {[Good EXCEPT !.routeId = r, !.destination = d, !.score = n, !.metadata = m] :
        r \in Values, d \in {"vectorize", "odd"}, m \in {"absent", "odd", "map"},
        n \in {"zero", "one", "high", "odd", "huge"}} \cup
    {[Good EXCEPT !.schemaId = a, !.schemaVersion = b,
                  !.document.schemaId = c, !.document.schemaVersion = d] :
        a \in Values, b \in Values, c \in Values \cup {"y"}, d \in Values} \cup
    {[Good EXCEPT !.document.documentId = d, !.document.fingerprint = t,
                  !.documentType = t, !.correlationId = t] :
        d \in {"d", "e", "odd"}, t \in Values} \cup
    {[Good EXCEPT !.document.storage = s, !.storageReferences = <<s>>] : s \in References} \cup
    {[Good EXCEPT !.chunks = c] : c \in
        {<<>>} \cup
        {<<Piece("a", i, t, s)>> : i \in {Odd, 0, 1}, t \in {"text", "null", "odd"},
                                   s \in {NoStorage, Stored}} \cup
        {<<Piece("a", 0, t, Stored), Piece(id, i, u, Stored)>> :
            t \in {"text", "absent"}, u \in {"text", "absent"},
            id \in {"a", "b"}, i \in 0..2}}

\* What is asked of the vectors.
ArtifactsMC == {Artifact(t, q, d, {}) : t \in {"embedding", "summary"},
                                      q \in {"absent", "true"}, d \in {None, Odd, 1, 2}}
Orders ==
    {[Good EXCEPT !.dimensions = n, !.artifacts = <<a>>] :
        n \in {None, Odd, 1, 2}, a \in ArtifactsMC} \cup
    {[Good EXCEPT !.artifacts = <<a, b>>] :
        a \in ArtifactsMC, b \in {Artifact("embedding", "true", 2, {}),
                               Artifact("summary", "false", None, {"field"})}} \cup
    {[Good EXCEPT !.chunks = <<Piece("a", 0, "text", NoStorage),
                               Piece("b", 1, "text", NoStorage)>>,
                  !.dimensions = n] : n \in {None, 1}} \cup
    {[Good EXCEPT !.score = "huge"]}

Of(entry, stale, sharing, p) ==
    [entry |-> entry, stale |-> stale, sharing |-> sharing, payload |-> p]

StringsMC == {"absent", "null", "odd", "text", "empty", "map", "x", "y", "r", "d", "e", "m",
              "a", "b", "u", "k", "vectorize", "zero", "half", "one", "high", "huge",
              "embedding", "summary", "true", "false", "field"}
RequestsMC ==
    {Of("processor", FALSE, FALSE, p) : p \in Messages \cup Orders} \cup
    {Of("runtime", stale, sharing, p) :
        stale \in BOOLEAN, sharing \in BOOLEAN, p \in Orders}

V(id, size) == [id |-> id, size |-> size, finite |-> TRUE]
VectorsMC == {<<>>, <<V("a", 0)>>, <<V("a", 1)>>, <<V("a", 2)>>,
            <<[V("a", 1) EXCEPT !.finite = FALSE]>>,
            <<V("a", 1), V("b", 1)>>, <<V("b", 1), V("a", 1)>>, <<V("a", 1), V("b", 2)>>}
RepliesMC == {[chunks |-> c, dimensions |-> d, finite |-> f] :
                 c \in VectorsMC, d \in {None, Odd, 1}, f \in BOOLEAN}
ContentsMC == {"text", "blank", "empty", "missing", "unavailable"}
=============================================================================
