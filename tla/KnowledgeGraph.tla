--------------------------- MODULE KnowledgeGraph ---------------------------
(***************************************************************************)
(* Entities, their aliases and name vectors, the mentions that tie them to *)
(* chunks and the relations between them, as ingestion and extraction      *)
(* write them.  An extraction resolves each name in a read of its own,     *)
(* waits for models in between, and writes everything in one transaction   *)
(* much later; ingestion, other extractions and collections come between.  *)
(*                                                                         *)
(* One action is one transaction, or one read with the model call that     *)
(* follows it.  Names are taken after NameNormalizer.normalize, which is   *)
(* how entity and chunk ids are derived; KeyOf is normalizeForMatching.    *)
(***************************************************************************)
EXTENDS Naturals

CONSTANTS
    Documents,
    Chunks,       \* chunk ids: a document, its title and a place under it
    DocumentOf,   \* the document of a chunk id
    TitleOf,      \* the title a chunk id is rooted at
    NoChunk,
    Names,
    NoTitle,
    Keys,         \* what names are matched by
    KeyOf,        \* NameNormalizer.normalizeForMatching
    Types,        \* GraphVocabulary.entityTypes
    DocumentType, \* the type of the entities that titles stand for
    Headers,      \* what a file may have at its head: a title and aliases
    Answers,      \* what the extraction provider may return
    Passes        \* extractions that may be under way at once

(* EntityID(type:canonicalName:): an entity is its type and name.          *)
Entities == [type : Types, name : Names]

ASSUME KnowledgeGraphAssumption ==
    /\ DocumentOf \in [Chunks -> Documents]
    /\ TitleOf \in [Chunks -> Names]
    /\ KeyOf \in [Names -> Keys]
    /\ DocumentType \in Types
    /\ NoChunk \notin Chunks /\ NoTitle \notin Names
    /\ Headers \subseteq [title : Names, aliases : SUBSET Keys]

(* OllamaExtractionProvider.sanitize: a relation joins two different names *)
(* that the same answer declares.                                          *)
Sanitized(answer) ==
    \A link \in answer.links :
        /\ link[1] # link[2]
        /\ {link[1], link[2]} \subseteq {e.name : e \in answer.entities}

ASSUME SanitizedAnswers ==
    /\ Answers \subseteq [entities : SUBSET Entities, links : SUBSET (Names \X Names)]
    /\ \A answer \in Answers : Sanitized(answer)

VARIABLES
    header,    \* per document: title and aliases it was ingested with
    chunks,    \* the chunk rows
    entities,  \* the entity rows
    vectors,   \* entities with a row in entity_embeddings
    aliases,   \* rows [entity, key]
    said,      \* mentions whose source is extraction
    declared,  \* mentions whose source is frontMatter
    relations, \* rows [source, target, chunk]
    reading,   \* per pass: the chunk it asked the model about
    todo,      \* per pass: extracted entities not yet resolved
    resolved,  \* per pass: resolutions made, kept until the transaction
    links,     \* per pass: the relations of the answer
    told,      \* history: the names of the last answer stored for a chunk
    takenOver  \* history: chunks whose declared mention an answer overwrote

graph == <<entities, vectors, aliases, said, declared, relations>>
passes == <<reading, todo, resolved, links>>
vars == <<header, chunks, graph, passes, told, takenOver>>

NoHeader == [title |-> NoTitle, aliases |-> {}]

Mentions == [entity : Entities, chunk : Chunks, surface : Names]
Relations == [source : Entities, target : Entities, chunk : Chunks]
Resolutions == [extracted : Entities, entity : Entities, isNew : BOOLEAN]

TypeOK ==
    /\ header \in [Documents -> Headers \cup {NoHeader}]
    /\ chunks \subseteq Chunks
    /\ entities \subseteq Entities
    /\ vectors \subseteq Entities
    /\ aliases \subseteq [entity : Entities, key : Keys]
    /\ said \subseteq Mentions
    /\ declared \subseteq Mentions
    /\ relations \subseteq Relations
    /\ reading \in [Passes -> Chunks \cup {NoChunk}]
    /\ todo \in [Passes -> SUBSET Entities]
    /\ resolved \in [Passes -> SUBSET Resolutions]
    /\ links \in [Passes -> SUBSET (Names \X Names)]
    /\ told \in [Chunks -> SUBSET Names]
    /\ takenOver \subseteq Chunks

-----------------------------------------------------------------------------
(* Reference counting.                                                     *)

Referenced(e, mentions, rels) ==
    \/ \E m \in mentions : m.entity = e
    \/ \E r \in rels : e \in {r.source, r.target}

(* Mutation of the next definition: name vectors are not collected.        *)
CollectForgettingVectors(ents, vecs, rows, extracted, fromHeader, rels) ==
    LET kept == {e \in ents : Referenced(e, extracted \cup fromHeader, rels)}
    IN  /\ entities' = kept
        /\ vectors' = vecs
        /\ aliases' = {a \in rows : a.entity \in kept}
        /\ said' = extracted
        /\ declared' = fromHeader
        /\ relations' = rels

(* How every transaction on the graph ends: with the tables as given, less *)
(* the entities that nothing references, their vectors and, by cascade,    *)
(* their aliases.                                                          *)
Collect(ents, vecs, rows, extracted, fromHeader, rels) ==
    LET kept == {e \in ents : Referenced(e, extracted \cup fromHeader, rels)}
    IN  /\ entities' = kept
        /\ vectors' = vecs \ (ents \ kept)
        /\ aliases' = {a \in rows : a.entity \in kept}
        /\ said' = extracted
        /\ declared' = fromHeader
        /\ relations' = rels

(* What is left of mentions or relations when the chunks of S go.          *)
Cascade(rows, S) == {r \in rows : r.chunk \notin S}

(* Mutation of the next two definitions: nothing is cleared.               *)
Kept(rows, S) == rows

(* clearExtraction of the chunks of S, ahead of what replaces it: the      *)
(* model's mentions and relations, not the front matter's mentions.        *)
ClearMentions(rows, S) == {m \in rows : m.chunk \notin S}

ClearRelations(rows, S) == {r \in rows : r.chunk \notin S}

-----------------------------------------------------------------------------
(* Ingestion.                                                              *)

ChunksOf(d) == {c \in chunks : DocumentOf[c] = d}

(* The ids the chunker can give to a file's chunks.                        *)
Sections(d, title) == {c \in Chunks : DocumentOf[c] = d /\ TitleOf[c] = title}

TitleEntity(title) == [type |-> DocumentType, name |-> title]

(* Mentions of the document's title by each of its chunks.                 *)
TitleMentions(title, present) ==
    {[entity |-> TitleEntity(title), chunk |-> c, surface |-> title] : c \in present}

(* seedTitleAliases: nothing without aliases, and nothing is ever retired. *)
Seeds(head) == IF head.aliases = {} THEN {} ELSE {TitleEntity(head.title)}

(* Mutation of the next definition: only chunks that are new are seeded.   *)
SeededInNewChunks(head, present) ==
    IF head.aliases = {} THEN {} ELSE TitleMentions(head.title, present \ chunks)

SeededMentions(head, present) ==
    IF head.aliases = {} THEN {} ELSE TitleMentions(head.title, present)

SeededAliases(head) ==
    {[entity |-> TitleEntity(head.title), key |-> k] : k \in head.aliases}

(* DocumentIngestor.ingest of a file that differs from the indexed one, or *)
(* is forced.  `present` are the chunks it parses to, `modified` those     *)
(* among the known ones whose text changed: what the model said of them is *)
(* retired, what the front matter said is not.                             *)
Ingest(d, head, present, modified) ==
    LET removed == ChunksOf(d) \ present
        seeded  == SeededMentions(head, present)
    IN  /\ header' = [header EXCEPT ![d] = head]
        /\ chunks' = (chunks \ removed) \cup present
        /\ Collect(entities \cup Seeds(head), vectors, aliases \cup SeededAliases(head),
                   ClearMentions(Cascade(said, removed), modified) \ seeded,
                   Cascade(declared, removed) \cup seeded,
                   ClearRelations(Cascade(relations, removed), modified))
        /\ told' = [c \in Chunks |->
                IF c \in removed \cup modified THEN {} ELSE told[c]]
        /\ takenOver' = takenOver \ (ChunksOf(d) \cup present)
        /\ UNCHANGED passes

(* Mutation of the next definition: a removal that does not collect.       *)
RemoveUncollected(gone) ==
    LET removed == {c \in chunks : DocumentOf[c] \in gone}
    IN  /\ header' = [d \in Documents |-> IF d \in gone THEN NoHeader ELSE header[d]]
        /\ chunks' = chunks \ removed
        /\ said' = Cascade(said, removed)
        /\ declared' = Cascade(declared, removed)
        /\ relations' = Cascade(relations, removed)
        /\ told' = [c \in Chunks |-> IF c \in removed THEN {} ELSE told[c]]
        /\ takenOver' = takenOver \ removed
        /\ UNCHANGED <<entities, vectors, aliases, passes>>

(* DocumentIngestor.remove for one document, KnowledgeStore.rebuild for    *)
(* all of them: the chunks go, and with them what they support.            *)
Remove(gone) ==
    LET removed == {c \in chunks : DocumentOf[c] \in gone}
    IN  /\ header' = [d \in Documents |-> IF d \in gone THEN NoHeader ELSE header[d]]
        /\ chunks' = chunks \ removed
        /\ Collect(entities, vectors, aliases, Cascade(said, removed),
                   Cascade(declared, removed), Cascade(relations, removed))
        /\ told' = [c \in Chunks |-> IF c \in removed THEN {} ELSE told[c]]
        /\ takenOver' = takenOver \ removed
        /\ UNCHANGED passes

-----------------------------------------------------------------------------
(* Extraction of one chunk: JobWorkers.runExtractionPass for one job.  Any *)
(* chunk may have one at any time, again if a version changed.             *)

Extract(p, c, answer) ==
    /\ reading[p] = NoChunk
    /\ reading' = [reading EXCEPT ![p] = c]
    /\ todo' = [todo EXCEPT ![p] = answer.entities]
    /\ resolved' = [resolved EXCEPT ![p] = {}]
    /\ links' = [links EXCEPT ![p] = answer.links]
    /\ UNCHANGED <<header, chunks, graph, told, takenOver>>

(* findByNormalizedName: by canonical name or by alias.                    *)
Exact(key) ==
    {e \in entities : KeyOf[e.name] = key \/ [entity |-> e, key |-> key] \in aliases}

Alike(E, type) == {e \in E : e.type = type}

(* EntityResolver.resolve: an exact match of the type decides; only when   *)
(* nothing matches exactly is a similar name looked for, and whether one   *)
(* is near enough, or the model says it is, is left open.                  *)
Resolve(p, extracted) ==
    LET exact   == Exact(KeyOf[extracted.name])
        matches == Alike(exact, extracted.type)
        similar == IF exact = {} THEN Alike(vectors \cap entities, extracted.type) ELSE {}
        Settle(e, isNew) ==
            resolved' = [resolved EXCEPT ![p] = @ \cup
                {[extracted |-> extracted, entity |-> e, isNew |-> isNew]}]
    IN  /\ \/ \E e \in matches : Settle(e, FALSE)
           \/ \E e \in similar : Settle(e, FALSE)
           \/ matches = {} /\ Settle(extracted, TRUE)
        /\ todo' = [todo EXCEPT ![p] = @ \ {extracted}]
        /\ UNCHANGED <<header, chunks, graph, reading, links, told, takenOver>>

Forget(p) ==
    /\ reading' = [reading EXCEPT ![p] = NoChunk]
    /\ todo' = [todo EXCEPT ![p] = {}]
    /\ resolved' = [resolved EXCEPT ![p] = {}]
    /\ links' = [links EXCEPT ![p] = {}]

(* Mutation of the next definition: aliases stored as spelled.             *)
AliasesAsSpelled(facts) ==
    {[entity |-> r.entity, key |-> r.extracted.name] :
        r \in {f \in facts : KeyOf[f.extracted.name] # KeyOf[f.entity.name]}}

(* persist: the surface form becomes an alias if it would not be matched   *)
(* with the entity's own name.                                             *)
NewAliases(facts) ==
    {[entity |-> r.entity, key |-> KeyOf[r.extracted.name]] :
        r \in {f \in facts : KeyOf[f.extracted.name] # KeyOf[f.entity.name]}}

NewMentions(c, facts) ==
    {[entity |-> r.entity, chunk |-> c, surface |-> r.extracted.name] : r \in facts}

(* Which entity a relation's endpoint is: of two with one name, the last.  *)
Endpoints(facts) ==
    {end \in [{r.extracted.name : r \in facts} -> facts] :
        \A n \in DOMAIN end : end[n].extracted.name = n}

NewRelations(c, pairs, end) ==
    {[source |-> end[pair[1]].entity, target |-> end[pair[2]].entity, chunk |-> c] :
        pair \in pairs}

(* The transaction of applyExtraction.  A mention whose key exists changes *)
(* its source.  For a chunk deleted meanwhile the first mention breaks a   *)
(* foreign key, or there is none and nothing to write: see Fail.           *)
StoreFacts(p) ==
    LET c     == reading[p]
        facts == resolved[p]
        fresh == NewMentions(c, facts)
    IN  /\ c \in chunks
        /\ todo[p] = {}
        /\ \E end \in Endpoints(facts) :
            Collect(entities \cup {r.entity : r \in facts},
                    vectors \cup {r.entity : r \in {f \in facts : f.isNew}},
                    aliases \cup NewAliases(facts),
                    ClearMentions(said, {c}) \cup fresh,
                    declared \ fresh,
                    ClearRelations(relations, {c}) \cup NewRelations(c, links[p], end))
        /\ told' = [told EXCEPT ![c] = {r.extracted.name : r \in facts}]
        /\ takenOver' = takenOver \cup (IF declared \cap fresh = {} THEN {} ELSE {c})
        /\ Forget(p)
        /\ UNCHANGED <<header, chunks>>

(* The model or the transaction failed: nothing is written.                *)
Fail(p) ==
    /\ reading[p] # NoChunk
    /\ Forget(p)
    /\ UNCHANGED <<header, chunks, graph, told, takenOver>>

(* The process dies and the store is opened with vectors of the same or of *)
(* another width: VectorIndex.ensureSchema drops the name vectors too, and *)
(* nothing computes them again.                                            *)
Reopen(redimension) ==
    /\ vectors' = IF redimension THEN {} ELSE vectors
    /\ reading' = [p \in Passes |-> NoChunk]
    /\ todo' = [p \in Passes |-> {}]
    /\ resolved' = [p \in Passes |-> {}]
    /\ links' = [p \in Passes |-> {}]
    /\ UNCHANGED <<header, chunks, entities, aliases, said, declared, relations,
                   told, takenOver>>

-----------------------------------------------------------------------------
Init ==
    /\ header = [d \in Documents |-> NoHeader]
    /\ chunks = {}
    /\ entities = {}
    /\ vectors = {}
    /\ aliases = {}
    /\ said = {}
    /\ declared = {}
    /\ relations = {}
    /\ reading = [p \in Passes |-> NoChunk]
    /\ todo = [p \in Passes |-> {}]
    /\ resolved = [p \in Passes |-> {}]
    /\ links = [p \in Passes |-> {}]
    /\ told = [c \in Chunks |-> {}]
    /\ takenOver = {}

Ingestion ==
    \/ \E d \in Documents, head \in Headers :
        \E present \in SUBSET Sections(d, head.title) :
        \E modified \in SUBSET (present \cap chunks) : Ingest(d, head, present, modified)
    \/ \E gone \in {{d} : d \in Documents} \cup {Documents} : Remove(gone)

Extraction(p) ==
    \/ \E c \in chunks, answer \in Answers : Extract(p, c, answer)
    \/ \E extracted \in todo[p] : Resolve(p, extracted)
    \/ StoreFacts(p)
    \/ Fail(p)

Next ==
    \/ Ingestion
    \/ \E p \in Passes : Extraction(p)
    \/ \E redimension \in BOOLEAN : Reopen(redimension)

Spec == Init /\ [][Next]_vars

-----------------------------------------------------------------------------
(* Safety.                                                                 *)

(* Nothing in the graph points to a chunk or an entity that is gone, and   *)
(* no vector, alias or late answer outlives its entity, although the       *)
(* vector tables know no foreign keys.                                     *)
GraphCitesLiveRows ==
    /\ \A m \in said \cup declared : m.entity \in entities /\ m.chunk \in chunks
    /\ \A r \in relations : {r.source, r.target} \subseteq entities /\ r.chunk \in chunks
    /\ \A a \in aliases : a.entity \in entities
    /\ vectors \subseteq entities

(* Between transactions every entity is referenced: edits, removals and    *)
(* answers that no longer name it leave no entity behind.                  *)
EntitiesAreReferenced ==
    \A e \in entities : Referenced(e, said \cup declared, relations)

(* Both ends of a relation are mentioned by the chunk that supports it, so *)
(* whatever seeds a traversal is reachable from its text.                  *)
EndpointsAreMentioned ==
    \A r \in relations : \A e \in {r.source, r.target} :
        \E m \in said \cup declared : m.entity = e /\ m.chunk = r.chunk

(* The form in which a chunk mentions an entity finds that entity again by *)
(* exact match, even if the entity was collected between its resolution    *)
(* and the transaction that mentions it.                                   *)
MentionsResolve ==
    \A m \in said \cup declared : m.entity \in Exact(KeyOf[m.surface])

(* What a chunk is said to mention is what the last answer stored for its  *)
(* text named: no answer adds to an older one, and nothing of the last is  *)
(* lost.                                                                   *)
MentionsMirrorLastAnswer ==
    \A c \in Chunks :
        /\ {m.surface : m \in {n \in said : n.chunk = c}} \subseteq told[c]
        /\ told[c] \subseteq {m.surface : m \in {n \in said \cup declared : n.chunk = c}}

(* A document with aliases is mentioned by each of its chunks in its own   *)
(* name, whatever was extracted and collected since, unless an answer took *)
(* the mention over.                                                       *)
DeclaredTitleStands ==
    \A d \in Documents : header[d].aliases # {} =>
        TitleMentions(header[d].title, ChunksOf(d) \ takenOver) \subseteq declared

-----------------------------------------------------------------------------
(* What the repository says of this code, and the code does not keep.      *)

(* Schema.swift:94: re-extracting a chunk must not erase what the document *)
(* itself declared in its front matter.                                    *)
DeclaredTitleIsMentioned ==
    \A d \in Documents : header[d].aliases # {} =>
        TitleMentions(header[d].title, ChunksOf(d)) \subseteq said \cup declared

=============================================================================
