------------------------- MODULE DocumentVectorize -------------------------
(***************************************************************************)
(* One attempt at a document.vectorize request, from the payload to its    *)
(* result: the contract (document/vectorize.py), the processor that reads  *)
(* a message and loads its chunks (document/processing.py), the Cyrex      *)
(* backend (document/cyrex_vectorizer.py), and the other way in,           *)
(* execute_document_vectorize, which runs the same node in a child of an   *)
(* organism and may be repeated with shared computations.  What becomes of *)
(* the result, and of other attempts at it, is in module                   *)
(* DocumentOperations.                                                     *)
(*                                                                         *)
(* A payload is a record; a field of it is one of few strings.  "absent"   *)
(* is a missing key, "null" is None, "odd" anything the field's check      *)
(* rejects.  Integers are themselves, or None, or something else.  Fields  *)
(* that are read alike are one field: title, sourceType, mimeType and so   *)
(* on are `fingerprint`, metadata and provenance are `metadata`.           *)
(***************************************************************************)
EXTENDS SequencesExt, Integers

CONSTANTS
    Strings,    \* bound: what a field that is no number may be
    Requests,   \* bound: the calls there may be: the entry, the payload, whether the
                \* parent's state has an output, and whether computations are shared
    Replies,    \* bound: what a backend may answer
    Contents    \* bound: what a stored chunk may be

None == -2   \* an integer that is null or absent
Odd  == -1   \* a value that is no integer, or a negative one

NoStorage == [none |-> TRUE]
NoReply   == [chunks |-> <<>>, dimensions |-> Odd, finite |-> FALSE]
Empty     == [none |-> TRUE]   \* no request, no output

VARIABLES
    call,      \* how it was called: entry, payload, what the parent's state has
    step,
    request,   \* the DocumentVectorizeInput
    reply,     \* the VectorizeBackendResult
    output,    \* state["document_vectorize"] of the envelope
    error,     \* the code in state["document_vectorize_error"]
    result,    \* what the caller gets
    blank,     \* history: a chunk was loaded that has nothing but white space
    shared     \* what the computation graph has of the same call

attemptVars == <<call, step, request, reply, output, error, result, blank, shared>>

\* The shape of what comes in, whether it is valid or not.
Objects  == [uri : Strings, bucket : Strings, key : Strings, sizeBytes : Int]
Storages == Objects \cup {NoStorage}

Documents == [documentId : Strings, fingerprint : Strings, storage : Storages,
              documentType : Strings, schemaId : Strings, schemaVersion : Strings]
Chunks    == [chunkId : Strings, documentId : Strings, index : Int, text : Strings,
              tokenCount : Int, storage : Storages]
Artifacts == [artifactType : Strings, required : Strings, dimensions : Int,
              unknown : SUBSET Strings]
Payloads  == [routeId : Strings, documentId : Strings, manifestVersion : Strings,
              destination : Strings, score : Strings, document : Documents,
              chunks : Seq(Chunks), storageReferences : Seq(Objects),
              documentType : Strings, schemaId : Strings, schemaVersion : Strings,
              artifacts : Seq(Artifacts), correlationId : Strings, dimensions : Int,
              metadata : Strings]

\* VectorizeBackendResult, VectorizedChunk
Vectors        == [id : Strings, size : Nat, finite : BOOLEAN]
BackendResults == [chunks : Seq(Vectors), dimensions : Int, finite : BOOLEAN]

ASSUME VectorizeAssumption ==
    /\ {"absent", "null", "odd", "text", "empty"} \subseteq Strings
    /\ Requests \subseteq [entry : {"processor", "runtime"}, stale : BOOLEAN,
                           sharing : BOOLEAN, payload : Payloads]
    /\ \A r \in Requests : r.entry = "processor" => ~r.stale /\ ~r.sharing
    /\ Replies \subseteq BackendResults
    /\ Contents \subseteq {"text", "blank", "empty", "missing", "unavailable"}

Codes == {"none", "VALIDATION_ERROR", "VECTORIZER_ERROR", "VECTORIZER_RESULT_INVALID",
          "VECTORIZER_TIMEOUT", "STORAGE_UNAVAILABLE", "STORAGE_CONTENT_NOT_FOUND",
          "INVALID_STORAGE_CONTENT", "raised"}
NoResult == [success |-> FALSE, output |-> Empty, code |-> "none", retryable |-> FALSE]
ParentOutput ==
    [documentId |-> "stale", chunks |-> <<>>, dimensions |-> Odd, artifacts |-> <<>>]

-----------------------------------------------------------------------------
(***************************************************************************)
(* The contract: from_payload, its checks, and to_payload.                 *)
(***************************************************************************)
Normal(v) == IF v = "absent" THEN "null" ELSE v

RequiredString(v) == v \notin {"absent", "null", "odd"}
OptionalString(v) == v # "odd"
Given(v)          == RequiredString(v)
OptionalInt(n)    == n # Odd
RequiredInt(n)    == n \notin {None, Odd}
\* An object, and every number in it finite, however deep.
OptionalMapping(v) == v # "odd"
\* A string, or an integer, which is one more string here.
ManifestVersion(v) == RequiredString(v)
Positive(n)       == n = None \/ n > 0

StorageValid(s) ==
    s # NoStorage =>
    /\ OptionalString(s.uri) /\ OptionalString(s.bucket) /\ OptionalString(s.key)
    /\ OptionalInt(s.sizeBytes)
    /\ Given(s.uri) \/ Given(s.key)
    /\ Given(s.bucket) => Given(s.key)

\* Mutant of StorageNormal: only what leads to an object in a bucket is kept.
StorageNormalByKey(s) ==
    IF s = NoStorage THEN s
    ELSE [uri |-> "null", bucket |-> Normal(s.bucket), key |-> Normal(s.key),
          sizeBytes |-> s.sizeBytes]
StorageNormal(s) ==
    IF s = NoStorage THEN s
    ELSE [uri |-> Normal(s.uri), bucket |-> Normal(s.bucket), key |-> Normal(s.key),
          sizeBytes |-> s.sizeBytes]

\* storage_key: there is one, and it says which object is meant.
StorageKey(s) ==
    IF Given(s.uri) THEN <<s.uri>>
    ELSE IF Given(s.bucket) THEN <<s.bucket, s.key>>
    ELSE <<s.key>>

DocumentValid(d) ==
    RequiredString(d.documentId) /\ OptionalString(d.fingerprint) /\ StorageValid(d.storage)

ChunkValid(c) ==
    /\ RequiredInt(c.index) /\ OptionalInt(c.tokenCount)
    /\ StorageValid(c.storage)
    /\ RequiredString(c.chunkId) /\ OptionalString(c.documentId) /\ OptionalString(c.text)

\* Unknown fields are refused, and an artifact nobody makes must not be required.
ArtifactValid(a) ==
    /\ RequiredString(a.artifactType) /\ a.required # "odd" /\ a.unknown = {}
    /\ a.artifactType = "embedding" => Positive(a.dimensions)
    /\ a.required = "true" => a.artifactType = "embedding"

OptionsValid(p) == Positive(p.dimensions)

\* _validate_schema_aliases: what is in the root and in the document agrees.
Aliases == {"documentType", "schemaId", "schemaVersion"}
AliasesAgree(p) ==
    \A k \in Aliases : {p[k], p.document[k]} \cap {"absent", "null"} # {}
                       \/ p[k] = p.document[k]

\* _optional_root_or_document_string: a root key that is null hides the other.
Alias(p, k) == IF p[k] # "absent" THEN p[k] ELSE Normal(p.document[k])

ChunksRelate(p) ==
    \A i \in DOMAIN p.chunks : LET c == p.chunks[i] IN
        /\ Given(c.documentId) => c.documentId = p.documentId
        /\ \A j \in 1..(i - 1) : p.chunks[j].chunkId # c.chunkId
        /\ c.index = i - 1
        /\ Given(c.text) \/ c.storage # NoStorage

\* _validate_relationships
Related(p) ==
    /\ p.score \in {"zero", "half", "one"}
    /\ p.document.documentId = p.documentId
    /\ Given(Alias(p, "schemaId")) <=> Given(Alias(p, "schemaVersion"))
    /\ ChunksRelate(p)
    /\ \A i \in DOMAIN p.artifacts : LET a == p.artifacts[i] IN
          a.artifactType = "embedding" /\ None \notin {a.dimensions, p.dimensions}
              => a.dimensions = p.dimensions

Valid(p) ==
    /\ RequiredString(p.routeId) /\ RequiredString(p.documentId)
    /\ ManifestVersion(p.manifestVersion) /\ p.destination = "vectorize"
    /\ DocumentValid(p.document)
    /\ p.chunks # <<>>
    /\ \A c \in ToSet(p.chunks) : ChunkValid(c)
    /\ \A s \in ToSet(p.storageReferences) : StorageValid(s)
    /\ \A a \in ToSet(p.artifacts) : ArtifactValid(a)
    /\ AliasesAgree(p) /\ \A k \in Aliases : OptionalString(Alias(p, k))
    /\ OptionalMapping(p.metadata) /\ OptionsValid(p)
    /\ OptionalString(p.correlationId)
    /\ Related(p)

\* float() of an integer that is too large raises, and not what the callers of
\* from_payload expect.  The score is read before most other fields.
Raises(p) ==
    p.score = "huge" /\ RequiredString(p.routeId) /\ RequiredString(p.documentId)
    /\ ManifestVersion(p.manifestVersion) /\ p.destination = "vectorize"

\* from_payload, of a valid payload.
DocumentOf(p) == [documentId |-> p.document.documentId,
                  fingerprint |-> Normal(p.document.fingerprint),
                  storage |-> StorageNormal(p.document.storage)]
ChunkOf(c) == [chunkId |-> c.chunkId, documentId |-> Normal(c.documentId),
               index |-> c.index, text |-> Normal(c.text), tokenCount |-> c.tokenCount,
               storage |-> StorageNormal(c.storage)]
ArtifactOf(a) == [artifactType |-> a.artifactType, required |-> a.required = "true",
                  dimensions |-> a.dimensions, raw |-> a]
RequestOf(p) ==
    [routeId |-> p.routeId, documentId |-> p.documentId,
     manifestVersion |-> p.manifestVersion, destination |-> p.destination,
     score |-> p.score, document |-> DocumentOf(p),
     chunks |-> [i \in DOMAIN p.chunks |-> ChunkOf(p.chunks[i])],
     storageReferences |-> [i \in DOMAIN p.storageReferences |->
                               StorageNormal(p.storageReferences[i])],
     documentType |-> Alias(p, "documentType"), schemaId |-> Alias(p, "schemaId"),
     schemaVersion |-> Alias(p, "schemaVersion"),
     artifacts |-> [i \in DOMAIN p.artifacts |-> ArtifactOf(p.artifacts[i])],
     correlationId |-> Normal(p.correlationId), dimensions |-> p.dimensions,
     metadata |-> IF p.metadata \in {"absent", "null"} THEN "empty" ELSE p.metadata]

\* to_payload
ToPayload(r) ==
    [r EXCEPT !.document  = [documentId |-> @.documentId, fingerprint |-> @.fingerprint,
                             storage |-> @.storage, documentType |-> "absent",
                             schemaId |-> "absent", schemaVersion |-> "absent"],
              !.artifacts = [i \in DOMAIN @ |-> @[i].raw]]

\* build_document_idempotency_key: `or` takes what is there and not null.  The
\* message's id is all that identifies one without a route and a correlation.
Identity(p, header, message) ==
    LET correlation == IF Normal(p.correlationId) = "null" THEN header
                       ELSE p.correlationId
    IN  [documentId |-> Normal(p.documentId), routeId |-> Normal(p.routeId),
         manifestVersion |-> Normal(p.manifestVersion), correlation |-> correlation,
         message |-> IF {Normal(p.routeId), correlation} = {"null"}
                     THEN message ELSE "none"]

-----------------------------------------------------------------------------
(***************************************************************************)
(* The backend's answer: _validate_backend_result, from_backend.           *)
(***************************************************************************)
\* The dimensions of an acceptable answer: what it says, or what it has.
DimensionsOf(a) == IF a.dimensions = None THEN a.chunks[1].size ELSE a.dimensions

SameChunks(r, a) ==
    /\ Len(a.chunks) = Len(r.chunks)
    /\ \A i \in DOMAIN a.chunks : a.chunks[i].id = r.chunks[i].chunkId

Acceptable(r, a) ==
    /\ SameChunks(r, a)
    /\ Positive(a.dimensions) /\ a.finite
    /\ \A c \in ToSet(a.chunks) : c.size > 0 /\ c.finite /\ c.size = DimensionsOf(a)
    /\ r.dimensions \in {None, DimensionsOf(a)}
    /\ \A q \in ToSet(r.artifacts) :
          q.required /\ q.artifactType = "embedding"
              => q.dimensions \in {None, DimensionsOf(a)}

ArtifactResult(q) ==
    IF q.artifactType = "embedding"
    THEN [type |-> q.artifactType, status |-> "fulfilled", required |-> q.required]
    ELSE [type |-> q.artifactType, status |-> "unsupported", required |-> FALSE]

OutputOf(r, a) ==
    [documentId |-> r.documentId, chunks |-> a.chunks, dimensions |-> DimensionsOf(a),
     artifacts |-> [i \in DOMAIN r.artifacts |-> ArtifactResult(r.artifacts[i])]]

\* CyrexVectorizer: the answer is arranged by the request, or it is an error.
CyrexReply(r, sizes, dimensions) ==
    [chunks |-> [i \in DOMAIN r.chunks |->
                    [id |-> r.chunks[i].chunkId, size |-> sizes[r.chunks[i].chunkId],
                     finite |-> TRUE]],
     dimensions |-> dimensions, finite |-> TRUE]

-----------------------------------------------------------------------------
Retryable(code) ==
    code \in {"VECTORIZER_ERROR", "VECTORIZER_TIMEOUT", "STORAGE_UNAVAILABLE"}

\* What the envelope starts with: a child's is a copy of its parent's.
ParentState == IF call.stale THEN ParentOutput ELSE Empty

AttemptInit ==
    /\ call \in Requests
    /\ step = IF call.entry = "processor" THEN "received" ELSE "node"
    /\ request = Empty /\ reply = NoReply
    /\ output = ParentState /\ error = "none"
    /\ result = NoResult /\ blank = FALSE /\ shared = Empty

Ends(code) ==
    /\ step' = "done"
    /\ result' = [NoResult EXCEPT !.code = code, !.retryable = Retryable(code)]

(***************************************************************************)
(* DocumentVectorizeProcessor: read the payload, load the chunks.          *)
(***************************************************************************)
Read ==
    /\ step = "received"
    /\ UNCHANGED <<call, reply, output, error, blank, shared>>
    /\ \/ IF ~Raises(call.payload) /\ Valid(call.payload)
          THEN /\ request' = RequestOf(call.payload)
               /\ step' = "load"
               /\ UNCHANGED result
          ELSE /\ ~Raises(call.payload)
               /\ Ends("VALIDATION_ERROR")
               /\ UNCHANGED request
       \/ \* a number that is too large, or not finite, cannot be recorded either
          /\ Raises(call.payload) \/ call.payload.metadata = "odd"
          /\ Ends("raised")
          /\ UNCHANGED request

CodeOf(content) ==
    CASE content = "unavailable" -> "STORAGE_UNAVAILABLE"
      [] content = "missing"     -> "STORAGE_CONTENT_NOT_FOUND"
      [] content = "empty"       -> "INVALID_STORAGE_CONTENT"

\* _resolve_chunk_content: the first chunk that cannot be loaded decides.
Load ==
    LET stored == {i \in DOMAIN request.chunks : ~Given(request.chunks[i].text)} IN
    /\ step = "load"
    /\ UNCHANGED <<call, reply, output, error, shared>>
    /\ \E content \in [stored -> Contents] :
          LET bad == {i \in stored : content[i] \notin {"text", "blank"}} IN
          IF bad = {}
          THEN /\ request' = [request EXCEPT !.chunks = [i \in DOMAIN @ |->
                      IF i \notin stored THEN @[i]
                      ELSE [@[i] EXCEPT !.text =
                               IF content[i] = "blank" THEN "odd" ELSE "text"]]]
               /\ blank' = \E i \in stored : content[i] = "blank"
               /\ step' = "node"
               /\ UNCHANGED result
          ELSE /\ Ends(CodeOf(content[CHOOSE i \in bad : \A j \in bad : i <= j]))
               /\ UNCHANGED <<request, blank>>

-----------------------------------------------------------------------------
(***************************************************************************)
(* DocumentVectorizeNode, and what the two callers make of it: the         *)
(* envelope's output and error are now out and err.                        *)
(***************************************************************************)
\* unsaid: what the processor makes of a failure that left no error.
\* Mutant of Outcome: a node that left no error has not failed.
OutcomeSilent(terminated, out, err, unsaid) ==
    [success |-> ~terminated /\ out # Empty, output |-> out, code |-> err,
     retryable |-> Retryable(err)]
\* Mutant of Outcome: there was an error only if there is no output.
OutcomeByOutput(terminated, out, err, unsaid) ==
    [success |-> out # Empty, output |-> out, code |-> err, retryable |-> Retryable(err)]
Outcome(terminated, out, err, unsaid) ==
    LET silent == call.entry = "processor" /\ terminated /\ err = "none"
        code   == IF silent THEN unsaid ELSE err
    IN  [success |-> ~terminated /\ out # Empty, output |-> out, code |-> code,
         retryable |-> Retryable(code)]

Returns(terminated, out, err, unsaid) ==
    /\ step' = "done"
    /\ output' = out /\ error' = err
    /\ result' = Outcome(terminated, out, err, unsaid)
    /\ shared' = IF call.sharing THEN [output |-> out, error |-> err] ELSE Empty

\* _fail_envelope
Fails(code) == Returns(TRUE, Empty, code, code)

Payload == IF call.entry = "processor" THEN ToPayload(request) ELSE call.payload

\* The node reads the payload again, or for the first time.
NodeReads ==
    /\ step = "node" /\ ~Raises(Payload)
    /\ UNCHANGED <<call, reply, blank>>
    /\ IF Valid(Payload)
       THEN /\ request' = RequestOf(Payload)
            /\ step' = "backend"
            /\ UNCHANGED <<output, error, result, shared>>
       ELSE Fails("VALIDATION_ERROR") /\ UNCHANGED request

\* Somebody's backend, or Cyrex.
Answers ==
    /\ step = "backend"
    /\ step' = "answered"
    /\ \/ reply' \in Replies
       \/ \E sizes \in [{c.chunkId : c \in ToSet(request.chunks)} -> {1, 2}],
             d \in {None, 1} :
             reply' = CyrexReply(request, sizes, d)
    /\ UNCHANGED <<call, request, output, error, result, blank, shared>>

BackendFails ==
    /\ step = "backend"
    /\ Fails("VECTORIZER_ERROR")
    /\ UNCHANGED <<call, request, reply, blank>>

Checks ==
    /\ step = "answered"
    /\ IF Acceptable(request, reply)
       THEN Returns(FALSE, OutputOf(request, reply), "none", "none")
       ELSE Fails("VECTORIZER_RESULT_INVALID")
    /\ UNCHANGED <<call, request, reply, blank>>

\* It takes too long, there is no thread for it, or it raises: the node's copy of
\* the envelope is dropped, and the caller's is terminated as it is.
Refused ==
    /\ step \in {"node", "backend", "answered"}
    /\ \E unsaid \in {"VECTORIZER_ERROR", "VECTORIZER_TIMEOUT"} :
          Returns(TRUE, output, error, unsaid)
    /\ UNCHANGED <<call, request, reply, blank>>

-----------------------------------------------------------------------------
(***************************************************************************)
(* execute_document_vectorize, once more and with shared computations: a   *)
(* child is given what the first left in its state, also if it failed.     *)
(***************************************************************************)
Again ==
    /\ step = "done" /\ shared # Empty
    /\ step' = "node"
    /\ output' = ParentState /\ error' = "none"
    /\ request' = Empty /\ reply' = NoReply /\ result' = NoResult
    /\ UNCHANGED <<call, blank, shared>>

Restored ==
    /\ step = "node" /\ shared # Empty
    /\ Returns(FALSE, IF shared.output = Empty THEN output ELSE shared.output,
               IF shared.error = "none" THEN error ELSE shared.error, "none")
    /\ UNCHANGED <<call, request, reply, blank>>

AttemptNext ==
    \/ Read \/ Load
    \/ NodeReads \/ Answers \/ BackendFails \/ Checks \/ Refused
    \/ Again \/ Restored

AttemptSpec == AttemptInit /\ [][AttemptNext]_attemptVars

-----------------------------------------------------------------------------
(***************************************************************************)
(* Properties.                                                             *)
(***************************************************************************)
AttemptTypeOK ==
    /\ step \in {"received", "load", "node", "backend", "answered", "done"}
    /\ step \in {"load", "backend", "answered"} => request # Empty
    /\ error \in Codes /\ result.code \in Codes
    /\ {result.success, result.retryable, blank} \subseteq BOOLEAN
    /\ reply \in BackendResults
    /\ step # "done" => result = NoResult

\* An attempt at a message ends as a success with an output, or with an error
\* code, and only what another attempt might change is tried again.  A payload that
\* is not valid can only fail for good.  Only a number that JSON or a float cannot
\* take makes the processor raise, with nothing recorded.
AttemptVerdict ==
    /\ AttemptTypeOK
    /\ step = "done" /\ call.entry = "processor" =>
          /\ result.success <=> result.code = "none"
          /\ result.success => result.output # Empty
          /\ result.retryable => ~result.success
          /\ result.success \/ result.retryable => Valid(call.payload)
          /\ result.code = "raised" => \/ call.payload.score = "huge"
                                       \/ call.payload.metadata = "odd"

\* What a request is turned into to be recorded, loaded and sent on is read as
\* that request again, and means the same: nothing that was accepted from a
\* message, and claimed, is refused by the node, unless a stored chunk turns out
\* to be nothing but white space.  It keeps its identity, which the message that
\* brings it is no part of, so that a redelivery is known for what it is.  Every
\* storage reference of it leads somewhere.
NormalFormKept ==
    /\ request # Empty /\ ~blank =>
          LET p == ToPayload(request) IN
          /\ Valid(p) /\ RequestOf(p) = request
          /\ \A h \in {"null", "header"} :
                Identity(p, h, "first") = Identity(call.payload, h, "redelivered")
          /\ \A s \in ToSet(request.storageReferences) : 
                \A k \in ToSet(StorageKey(s)) : Given(k)
    /\ result.code = "VALIDATION_ERROR" => ~Valid(call.payload) \/ blank

\* The output answers the payload.
IsAnswer(p, o) ==
    /\ o.documentId = p.documentId
    /\ Len(o.chunks) = Len(p.chunks) /\ Len(o.artifacts) = Len(p.artifacts)
    /\ \A i \in DOMAIN p.chunks :
          o.chunks[i].id = p.chunks[i].chunkId /\ o.chunks[i].size = o.dimensions
    /\ o.dimensions > 0 /\ p.dimensions \in {None, o.dimensions}
    /\ \A i \in DOMAIN p.artifacts : p.artifacts[i].required = "true" =>
          /\ o.artifacts[i].type = "embedding" /\ o.artifacts[i].status = "fulfilled"
          /\ o.artifacts[i].required
          /\ p.artifacts[i].dimensions \in {None, o.dimensions}

\* The result of a call that succeeds is the answer to its own request: a vector
\* for every chunk, at its place, all as long as the options and each required
\* artifact want them, and an artifact for every artifact request.  What was in
\* the parent's state, and what other calls left, never passes for it, but for
\* one case: a repeated call with shared computations that finds a failure there
\* succeeds with the output its parent came with.
AnswersRequest ==
    result.success /\ ~(call.stale /\ call.sharing) => IsAnswer(call.payload, result.output)

-----------------------------------------------------------------------------
(***************************************************************************)
(* What makes the properties inductive.                                    *)
(***************************************************************************)
\* The request is the payload's, but for the texts that were loaded into it.
WithTexts(r, texts) ==
    [r EXCEPT !.chunks = [i \in DOMAIN @ |-> [@[i] EXCEPT !.text = texts[i]]]]

Texts(r) == [i \in DOMAIN r.chunks |-> r.chunks[i].text]

MayBeText(c, t) == t \in {Normal(c.text), "text"} \/ (blank /\ t = "odd")

RequestKept ==
    request # Empty =>
        /\ Valid(call.payload)
        /\ request = WithTexts(RequestOf(call.payload), Texts(request))
        /\ \A i \in DOMAIN call.payload.chunks :
              MayBeText(call.payload.chunks[i], Texts(request)[i])

\* Nothing is in the envelope but what it started with until the attempt is over,
\* and only an attempt at a message loads chunks and reads its payload twice.
EntryKept ==
    /\ step # "done" => output = ParentState /\ error = "none"
    /\ step \in {"received", "load"} => call.entry = "processor"
    /\ call.entry = "processor" => /\ shared = Empty
                                   /\ step = "node" => request # Empty
    /\ blank => call.entry = "processor"

\* The computation graph has what some attempt at the same call left.
SharedKept ==
    shared # Empty =>
        /\ call.sharing
        /\ shared.error \in Codes
        /\ shared.error = "VALIDATION_ERROR" => ~Valid(call.payload)
        /\ shared.output = Empty \/ call.stale \/ IsAnswer(call.payload, shared.output)

AttemptInv ==
    /\ call \in Requests
    /\ AttemptVerdict
    /\ result.code = "VALIDATION_ERROR" => ~Valid(call.payload) \/ blank
    /\ AnswersRequest
    /\ RequestKept /\ EntryKept /\ SharedKept
=============================================================================
