------------------------ MODULE KnowledgeGraphProofs ------------------------
(***************************************************************************)
(* The safety of KnowledgeGraph for every corpus, vocabulary, matching and *)
(* provider.  The properties need each other (an alias is there because    *)
(* its entity is, an entity because a mention is, a mention because its    *)
(* chunk is), and one fact about passes: what an answer relates is among   *)
(* what has been or will be resolved.                                      *)
(***************************************************************************)
EXTENDS KnowledgeGraph, TLAPS

NamesOf(p) == {e.name : e \in todo[p]} \cup {r.extracted.name : r \in resolved[p]}

LinksAreNamed ==
    \A p \in Passes : \A link \in links[p] : {link[1], link[2]} \subseteq NamesOf(p)

IInv ==
    /\ TypeOK
    /\ GraphCitesLiveRows
    /\ EntitiesAreReferenced
    /\ EndpointsAreMentioned
    /\ MentionsResolve
    /\ MentionsMirrorLastAnswer
    /\ DeclaredTitleStands
    /\ LinksAreNamed

-----------------------------------------------------------------------------
(* Entities.                                                               *)

LEMMA EntityFields ==
    ASSUME NEW e \in Entities
    PROVE  e.type \in Types /\ e.name \in Names /\ KeyOf[e.name] \in Keys
  BY KnowledgeGraphAssumption DEF Entities

LEMMA HeaderFields ==
    ASSUME NEW head \in Headers
    PROVE  head.title \in Names /\ head.aliases \subseteq Keys
  BY KnowledgeGraphAssumption

(* The mentions and aliases that front matter seeds are rows, and resolve. *)
LEMMA SeedsAreRows ==
    ASSUME NEW head \in Headers, NEW present \in SUBSET Chunks
    PROVE  /\ Seeds(head) \subseteq Entities
           /\ SeededMentions(head, present) \subseteq Mentions
           /\ SeededAliases(head) \subseteq [entity : Entities, key : Keys]
           /\ \A m \in SeededMentions(head, present) :
                /\ m.entity \in Seeds(head)
                /\ m.chunk \in present
                /\ m.surface = m.entity.name
  <1>1. TitleEntity(head.title) \in Entities
    BY HeaderFields, KnowledgeGraphAssumption DEF TitleEntity, Entities
  <1>2. TitleMentions(head.title, present) \subseteq Mentions
    BY <1>1, HeaderFields DEF TitleMentions, Mentions
  <1>3. \A m \in TitleMentions(head.title, present) :
            /\ m.entity = TitleEntity(head.title)
            /\ m.chunk \in present
            /\ m.surface = m.entity.name
    BY DEF TitleMentions, TitleEntity
  <1> QED
    BY <1>1, <1>2, <1>3, HeaderFields DEF Seeds, SeededMentions, SeededAliases

(* What a pass writes are rows, about its chunk and its entities.          *)
LEMMA FactsAreRows ==
    ASSUME NEW c \in Chunks, NEW facts \in SUBSET Resolutions
    PROVE  /\ {r.entity : r \in facts} \subseteq Entities
           /\ NewMentions(c, facts) \subseteq Mentions
           /\ NewAliases(facts) \subseteq [entity : Entities, key : Keys]
           /\ \A m \in NewMentions(c, facts) :
                /\ m.chunk = c
                /\ \E r \in facts : m.entity = r.entity /\ m.surface = r.extracted.name
           /\ \A r \in facts : \E m \in NewMentions(c, facts) :
                m.entity = r.entity /\ m.surface = r.extracted.name
           /\ \A r \in facts :
                \/ KeyOf[r.extracted.name] = KeyOf[r.entity.name]
                \/ [entity |-> r.entity, key |-> KeyOf[r.extracted.name]] \in NewAliases(facts)
           /\ \A a \in NewAliases(facts) : \E r \in facts : a.entity = r.entity
  <1>1. \A r \in facts : r.extracted \in Entities /\ r.entity \in Entities
    BY DEF Resolutions
  <1>2. \A r \in facts : r.extracted.name \in Names /\ KeyOf[r.extracted.name] \in Keys
    BY <1>1, EntityFields
  <1>3. /\ NewMentions(c, facts) \subseteq Mentions
        /\ \A m \in NewMentions(c, facts) :
             /\ m.chunk = c
             /\ \E r \in facts : m.entity = r.entity /\ m.surface = r.extracted.name
    BY <1>1, <1>2 DEF NewMentions, Mentions
  <1>4. ASSUME NEW r \in facts
        PROVE  \E m \in NewMentions(c, facts) :
                  m.entity = r.entity /\ m.surface = r.extracted.name
    <2>1. [entity |-> r.entity, chunk |-> c, surface |-> r.extracted.name]
            \in NewMentions(c, facts)
      BY DEF NewMentions
    <2> QED
      BY <2>1
  <1>5. /\ NewAliases(facts) \subseteq [entity : Entities, key : Keys]
        /\ \A a \in NewAliases(facts) : \E r \in facts : a.entity = r.entity
    BY <1>1, <1>2 DEF NewAliases
  <1>6. \A r \in facts :
            \/ KeyOf[r.extracted.name] = KeyOf[r.entity.name]
            \/ [entity |-> r.entity, key |-> KeyOf[r.extracted.name]] \in NewAliases(facts)
    BY DEF NewAliases
  <1> QED
    BY <1>1, <1>3, <1>4, <1>5, <1>6

LEMMA NewRelationsAreRows ==
    ASSUME NEW c \in Chunks, NEW facts \in SUBSET Resolutions,
           NEW pairs \in SUBSET (Names \X Names),
           \A pair \in pairs : {pair[1], pair[2]} \subseteq {r.extracted.name : r \in facts},
           NEW end \in Endpoints(facts)
    PROVE  \A rel \in NewRelations(c, pairs, end) :
              /\ rel \in Relations
              /\ rel.chunk = c
              /\ \E r \in facts : rel.source = r.entity
              /\ \E r \in facts : rel.target = r.entity
  <1>1. \A pair \in pairs : end[pair[1]] \in facts /\ end[pair[2]] \in facts
    BY DEF Endpoints
  <1>2. \A r \in facts : r.entity \in Entities
    BY DEF Resolutions
  <1> QED
    BY <1>1, <1>2 DEF NewRelations, Relations

-----------------------------------------------------------------------------
(* Collection.                                                             *)

(* If every row points into the entities given, what is collected leaves   *)
(* no dangling row and no unreferenced entity.                             *)
LEMMA CollectionIsSafe ==
    ASSUME NEW ents, NEW vecs, NEW rows, NEW extracted, NEW fromHeader, NEW rels,
           Collect(ents, vecs, rows, extracted, fromHeader, rels),
           \A m \in extracted \cup fromHeader : m.entity \in ents,
           \A r \in rels : r.source \in ents /\ r.target \in ents,
           vecs \subseteq ents
    PROVE  /\ entities' \subseteq ents
           /\ vectors' \subseteq vecs
           /\ aliases' \subseteq rows
           /\ said' = extracted /\ declared' = fromHeader /\ relations' = rels
           /\ EntitiesAreReferenced'
           /\ \A m \in said' \cup declared' : m.entity \in entities'
           /\ \A r \in relations' : {r.source, r.target} \subseteq entities'
           /\ \A a \in aliases' : a.entity \in entities'
           /\ \A a \in rows : a.entity \in entities' => a \in aliases'
           /\ vectors' \subseteq entities'
  <1>1. /\ entities' = {e \in ents : Referenced(e, said' \cup declared', relations')}
        /\ said' = extracted /\ declared' = fromHeader /\ relations' = rels
        /\ vectors' = vecs \ (ents \ entities')
        /\ aliases' = {a \in rows : a.entity \in entities'}
    BY DEF Collect
  <1>2. \A m \in said' \cup declared' : m.entity \in entities'
    BY <1>1 DEF Referenced
  <1>3. \A r \in relations' : {r.source, r.target} \subseteq entities'
    BY <1>1 DEF Referenced
  <1>4. EntitiesAreReferenced'
    BY <1>1 DEF EntitiesAreReferenced
  <1> QED
    BY <1>1, <1>2, <1>3, <1>4

-----------------------------------------------------------------------------
(* Types.                                                                  *)

LEMMA TypeInit == Init => TypeOK
  BY DEF Init, TypeOK

LEMMA IngestTypes ==
    ASSUME IInv, NEW d \in Documents, NEW head \in Headers,
           NEW present \in SUBSET Sections(d, head.title),
           NEW modified \in SUBSET (present \cap chunks),
           Ingest(d, head, present, modified)
    PROVE  TypeOK'
  <1> USE DEF IInv, TypeOK
  <1>1. present \subseteq Chunks
    BY DEF Sections
  <1>2. /\ Seeds(head) \subseteq Entities
        /\ SeededMentions(head, present) \subseteq Mentions
        /\ SeededAliases(head) \subseteq [entity : Entities, key : Keys]
    BY <1>1, SeedsAreRows
  <1>3. /\ entities' \subseteq entities \cup Seeds(head)
        /\ vectors' \subseteq vectors
        /\ aliases' \subseteq aliases \cup SeededAliases(head)
        /\ said' \subseteq said
        /\ declared' \subseteq declared \cup SeededMentions(head, present)
        /\ relations' \subseteq relations
    BY DEF Ingest, Collect, Cascade, ClearMentions, ClearRelations
  <1>4. header' \in [Documents -> Headers \cup {NoHeader}]
    BY DEF Ingest
  <1>5. chunks' \subseteq Chunks /\ takenOver' \subseteq Chunks
    BY <1>1 DEF Ingest
  <1>6. told' \in [Chunks -> SUBSET Names]
    BY DEF Ingest
  <1> QED
    BY <1>2, <1>3, <1>4, <1>5, <1>6 DEF Ingest, passes

LEMMA RemoveTypes ==
    ASSUME IInv, NEW gone \in SUBSET Documents, Remove(gone)
    PROVE  TypeOK'
  <1> USE DEF IInv, TypeOK
  <1>1. /\ entities' \subseteq entities
        /\ vectors' \subseteq vectors
        /\ aliases' \subseteq aliases
        /\ said' \subseteq said
        /\ declared' \subseteq declared
        /\ relations' \subseteq relations
    BY DEF Remove, Collect, Cascade
  <1>2. header' \in [Documents -> Headers \cup {NoHeader}]
    BY DEF Remove
  <1>3. chunks' \subseteq Chunks /\ takenOver' \subseteq Chunks
    BY DEF Remove
  <1>4. told' \in [Chunks -> SUBSET Names]
    BY DEF Remove
  <1> QED
    BY <1>1, <1>2, <1>3, <1>4 DEF Remove, passes

(* An answer that is about to be stored, and what is known of it.          *)
LEMMA ReadyFacts ==
    ASSUME IInv, NEW p \in Passes, StoreFacts(p)
    PROVE  /\ reading[p] \in Chunks
           /\ resolved[p] \in SUBSET Resolutions
           /\ links[p] \in SUBSET (Names \X Names)
           /\ \A pair \in links[p] :
                {pair[1], pair[2]} \subseteq {r.extracted.name : r \in resolved[p]}
  BY DEF StoreFacts, IInv, TypeOK, LinksAreNamed, NamesOf

LEMMA StoreTypes ==
    ASSUME IInv, NEW p \in Passes, StoreFacts(p)
    PROVE  TypeOK'
  <1> DEFINE c == reading[p]
             facts == resolved[p]
  <1>1. PICK end \in Endpoints(facts) :
            Collect(entities \cup {r.entity : r \in facts},
                    vectors \cup {r.entity : r \in {f \in facts : f.isNew}},
                    aliases \cup NewAliases(facts),
                    ClearMentions(said, {c}) \cup NewMentions(c, facts),
                    declared \ NewMentions(c, facts),
                    ClearRelations(relations, {c}) \cup NewRelations(c, links[p], end))
    BY DEF StoreFacts
  <1>2. c \in Chunks /\ facts \in SUBSET Resolutions
    BY ReadyFacts
  <1>3. NewRelations(c, links[p], end) \subseteq Relations
    BY ReadyFacts, NewRelationsAreRows
  <1>4. /\ {r.entity : r \in facts} \subseteq Entities
        /\ NewMentions(c, facts) \subseteq Mentions
        /\ NewAliases(facts) \subseteq [entity : Entities, key : Keys]
    BY <1>2, FactsAreRows
  <1>5. /\ entities' \subseteq entities \cup {r.entity : r \in facts}
        /\ vectors' \subseteq vectors \cup {r.entity : r \in facts}
        /\ aliases' \subseteq aliases \cup NewAliases(facts)
        /\ said' \subseteq said \cup NewMentions(c, facts)
        /\ declared' \subseteq declared
        /\ relations' \subseteq relations \cup NewRelations(c, links[p], end)
    BY <1>1 DEF Collect, ClearMentions, ClearRelations
  <1>6. told' \in [Chunks -> SUBSET Names]
    <2>1. {r.extracted.name : r \in facts} \subseteq Names
      BY <1>2, EntityFields DEF Resolutions
    <2> QED
      BY <2>1 DEF StoreFacts, IInv, TypeOK
  <1>7. takenOver' \subseteq Chunks
    BY <1>2 DEF StoreFacts, IInv, TypeOK
  <1>8. /\ reading' \in [Passes -> Chunks \cup {NoChunk}]
        /\ todo' \in [Passes -> SUBSET Entities]
        /\ resolved' \in [Passes -> SUBSET Resolutions]
        /\ links' \in [Passes -> SUBSET (Names \X Names)]
    BY DEF StoreFacts, Forget, IInv, TypeOK
  <1> QED
    BY <1>3, <1>4, <1>5, <1>6, <1>7, <1>8 DEF StoreFacts, IInv, TypeOK

LEMMA ResolveTypes ==
    ASSUME IInv, NEW p \in Passes, NEW extracted \in todo[p], Resolve(p, extracted)
    PROVE  TypeOK' /\ LinksAreNamed'
  <1> USE DEF IInv, TypeOK
  <1>1. PICK e \in Entities, isNew \in BOOLEAN :
            resolved' = [resolved EXCEPT ![p] = @ \cup
                {[extracted |-> extracted, entity |-> e, isNew |-> isNew]}]
    BY DEF Resolve, Exact, Alike
  <1>2. [extracted |-> extracted, entity |-> e, isNew |-> isNew] \in Resolutions
    BY DEF Resolutions
  <1>3. resolved' \in [Passes -> SUBSET Resolutions]
    BY <1>1, <1>2
  <1>4. todo' = [todo EXCEPT ![p] = @ \ {extracted}] /\ links' = links
    BY DEF Resolve
  <1>5. TypeOK'
    BY <1>3, <1>4 DEF Resolve, graph
  <1>6. \A q \in Passes : NamesOf(q) \subseteq NamesOf(q)'
    <2> SUFFICES ASSUME NEW q \in Passes, NEW n \in NamesOf(q)
                 PROVE  n \in NamesOf(q)'
      OBVIOUS
    <2>1. CASE \E r \in resolved[q] : r.extracted.name = n
      BY <1>1, <2>1 DEF NamesOf
    <2>2. CASE \E x \in todo[q] : x.name = n /\ (q # p \/ x # extracted)
      BY <1>4, <2>2 DEF NamesOf
    <2>3. CASE q = p /\ n = extracted.name
      <3> DEFINE r == [extracted |-> extracted, entity |-> e, isNew |-> isNew]
      <3>1. r \in resolved'[q]
        BY <1>1, <2>3
      <3>2. r.extracted.name = n
        BY <2>3
      <3> QED
        BY <3>1, <3>2 DEF NamesOf
    <2> QED
      BY <2>1, <2>2, <2>3 DEF NamesOf
  <1> QED
    BY <1>4, <1>5, <1>6 DEF LinksAreNamed

-----------------------------------------------------------------------------
(* Ingestion.                                                              *)

LEMMA IngestKeeps ==
    ASSUME IInv, NEW d \in Documents, NEW head \in Headers,
           NEW present \in SUBSET Sections(d, head.title),
           NEW modified \in SUBSET (present \cap chunks),
           Ingest(d, head, present, modified)
    PROVE  IInv'
  <1> DEFINE removed == ChunksOf(d) \ present
             seeded  == SeededMentions(head, present)
             ents    == entities \cup Seeds(head)
             rows    == aliases \cup SeededAliases(head)
             extracted == ClearMentions(Cascade(said, removed), modified) \ seeded
             fromHeader == Cascade(declared, removed) \cup seeded
             rels    == ClearRelations(Cascade(relations, removed), modified)
  <1>1. present \subseteq Chunks /\ \A c \in present : DocumentOf[c] = d
    BY DEF Sections
  <1>2. Collect(ents, vectors, rows, extracted, fromHeader, rels)
    BY DEF Ingest
  <1>3. /\ seeded \subseteq Mentions
        /\ \A m \in seeded : /\ m.entity \in Seeds(head)
                            /\ m.chunk \in present
                            /\ m.surface = m.entity.name
    BY <1>1, SeedsAreRows
  <1>4. \A m \in extracted \cup fromHeader : m \in said \cup declared \/ m \in seeded
    BY DEF Cascade, ClearMentions
  <1>5. \A m \in extracted \cup fromHeader : m.entity \in ents
    BY <1>3, <1>4 DEF IInv, GraphCitesLiveRows
  <1>6. \A r \in rels : r \in relations /\ r.chunk \notin removed \cup modified
    BY DEF Cascade, ClearRelations
  <1>7. \A r \in rels : r.source \in ents /\ r.target \in ents
    BY <1>6 DEF IInv, GraphCitesLiveRows
  <1>8. vectors \subseteq ents
    BY DEF IInv, GraphCitesLiveRows
  <1>9. /\ entities' \subseteq ents
        /\ aliases' \subseteq rows
        /\ said' = extracted /\ declared' = fromHeader /\ relations' = rels
        /\ EntitiesAreReferenced'
        /\ \A m \in said' \cup declared' : m.entity \in entities'
        /\ \A r \in relations' : {r.source, r.target} \subseteq entities'
        /\ \A a \in aliases' : a.entity \in entities'
        /\ \A a \in rows : a.entity \in entities' => a \in aliases'
        /\ vectors' \subseteq entities'
    <2> HIDE DEF ents, rows, extracted, fromHeader, rels
    <2> QED
      BY <1>2, <1>5, <1>7, <1>8, CollectionIsSafe
  <1>10. chunks' = (chunks \ removed) \cup present
    BY DEF Ingest
  <1>11. GraphCitesLiveRows'
    <2>1. \A m \in said' \cup declared' : m.chunk \in chunks'
      BY <1>3, <1>9, <1>10 DEF Cascade, ClearMentions, IInv, GraphCitesLiveRows
    <2>2. \A r \in relations' : r.chunk \in chunks'
      BY <1>6, <1>9, <1>10 DEF IInv, GraphCitesLiveRows
    <2> QED
      BY <1>9, <2>1, <2>2 DEF GraphCitesLiveRows
  <1>12. \A m \in said \cup declared :
            m.chunk \notin removed \cup modified => m \in said' \cup declared'
    BY <1>9 DEF Cascade, ClearMentions
  <1>13. EndpointsAreMentioned'
    <2> SUFFICES ASSUME NEW r \in relations', NEW e \in {r.source, r.target}
                 PROVE  \E m \in said' \cup declared' : m.entity = e /\ m.chunk = r.chunk
      BY DEF EndpointsAreMentioned
    <2>1. r \in relations /\ r.chunk \notin removed \cup modified
      BY <1>6, <1>9
    <2>2. PICK m \in said \cup declared : m.entity = e /\ m.chunk = r.chunk
      BY <2>1 DEF IInv, EndpointsAreMentioned
    <2> QED
      BY <1>12, <2>1, <2>2
  <1>14. MentionsResolve'
    <2> SUFFICES ASSUME NEW m \in said' \cup declared'
                 PROVE  \/ KeyOf[m.entity.name] = KeyOf[m.surface]
                        \/ [entity |-> m.entity, key |-> KeyOf[m.surface]] \in aliases'
      BY <1>9 DEF MentionsResolve, Exact
    <2>1. CASE m \in seeded
      BY <1>3, <2>1
    <2>2. CASE m \in said \cup declared
      <3>1. m.entity \in Exact(KeyOf[m.surface])
        BY <2>2 DEF IInv, MentionsResolve
      <3>2. CASE [entity |-> m.entity, key |-> KeyOf[m.surface]] \in aliases
        BY <1>9, <3>2
      <3> QED
        BY <3>1, <3>2 DEF Exact
    <2> QED
      BY <1>4, <1>9, <2>1, <2>2
  <1>15. MentionsMirrorLastAnswer'
    <2>1. \A c \in Chunks :
            told'[c] = IF c \in removed \cup modified THEN {} ELSE told[c]
      BY DEF Ingest
    <2> SUFFICES ASSUME NEW c \in Chunks
                 PROVE  /\ \A m \in said' : m.chunk = c => m.surface \in told'[c]
                        /\ \A n \in told'[c] : \E m \in said' \cup declared' :
                                m.chunk = c /\ m.surface = n
      BY DEF MentionsMirrorLastAnswer
    <2>2. CASE c \in removed \cup modified
      BY <1>9, <2>1, <2>2 DEF Cascade, ClearMentions
    <2>3. CASE c \notin removed \cup modified
      <3>1. told'[c] = told[c]
        BY <2>1, <2>3
      <3>2. \A m \in said' : m \in said
        BY <1>9 DEF Cascade, ClearMentions
      <3> QED
        BY <1>12, <2>3, <3>1, <3>2 DEF IInv, MentionsMirrorLastAnswer
    <2> QED
      BY <2>2, <2>3
  <1>16. DeclaredTitleStands'
    <2>1. header' = [header EXCEPT ![d] = head] /\ takenOver' = takenOver \ (ChunksOf(d) \cup present)
      BY DEF Ingest
    <2> SUFFICES ASSUME NEW b \in Documents, header'[b].aliases # {}
                 PROVE  TitleMentions(header'[b].title, ChunksOf(b)' \ takenOver') \subseteq declared'
      BY DEF DeclaredTitleStands
    <2>2. CASE b = d
      <3>1. ChunksOf(b)' = present
        BY <1>1, <1>10, <2>2 DEF ChunksOf
      <3>2. header'[b] = head
        BY <2>1, <2>2 DEF IInv, TypeOK
      <3>3. seeded = TitleMentions(head.title, present)
        BY <3>2 DEF SeededMentions
      <3> QED
        BY <1>9, <3>1, <3>2, <3>3 DEF TitleMentions
    <2>3. CASE b # d
      <3>1. ChunksOf(b)' = ChunksOf(b)
        BY <1>1, <1>10, <2>3 DEF ChunksOf
      <3>2. \A c \in ChunksOf(b) : c \notin removed /\ (c \notin takenOver' => c \notin takenOver)
        BY <1>1, <2>1, <2>3 DEF ChunksOf
      <3>3. header'[b] = header[b]
        BY <2>1, <2>3 DEF IInv, TypeOK
      <3>4. TitleMentions(header[b].title, ChunksOf(b) \ takenOver) \subseteq declared
        BY <3>3 DEF IInv, DeclaredTitleStands
      <3>5. \A m \in TitleMentions(header[b].title, ChunksOf(b) \ takenOver') :
                m \in TitleMentions(header[b].title, ChunksOf(b) \ takenOver)
                /\ m.chunk \in ChunksOf(b)
        BY <3>2 DEF TitleMentions
      <3> QED
        BY <1>9, <3>1, <3>2, <3>3, <3>4, <3>5 DEF Cascade
    <2> QED
      BY <2>2, <2>3
  <1>17. LinksAreNamed'
    BY DEF Ingest, passes, IInv, LinksAreNamed, NamesOf
  <1> QED
    BY <1>9, <1>11, <1>13, <1>14, <1>15, <1>16, <1>17, IngestTypes DEF IInv

LEMMA RemoveKeeps ==
    ASSUME IInv, NEW gone \in SUBSET Documents, Remove(gone)
    PROVE  IInv'
  <1> DEFINE removed == {c \in chunks : DocumentOf[c] \in gone}
             extracted == Cascade(said, removed)
             fromHeader == Cascade(declared, removed)
             rels == Cascade(relations, removed)
  <1>1. Collect(entities, vectors, aliases, extracted, fromHeader, rels)
    BY DEF Remove
  <1>2. /\ \A m \in extracted \cup fromHeader : m \in said \cup declared /\ m.chunk \notin removed
        /\ \A r \in rels : r \in relations /\ r.chunk \notin removed
    BY DEF Cascade
  <1>3. /\ \A m \in extracted \cup fromHeader : m.entity \in entities
        /\ \A r \in rels : r.source \in entities /\ r.target \in entities
        /\ vectors \subseteq entities
    BY <1>2 DEF IInv, GraphCitesLiveRows
  <1>4. /\ said' = extracted /\ declared' = fromHeader /\ relations' = rels
        /\ EntitiesAreReferenced'
        /\ \A m \in said' \cup declared' : m.entity \in entities'
        /\ \A r \in relations' : {r.source, r.target} \subseteq entities'
        /\ \A a \in aliases' : a.entity \in entities'
        /\ \A a \in aliases : a.entity \in entities' => a \in aliases'
        /\ vectors' \subseteq entities'
    <2> HIDE DEF extracted, fromHeader, rels
    <2> QED
      BY <1>1, <1>3, CollectionIsSafe
  <1>5. chunks' = chunks \ removed
    BY DEF Remove
  <1>6. GraphCitesLiveRows'
    BY <1>2, <1>4, <1>5 DEF IInv, GraphCitesLiveRows
  <1>7. \A m \in said \cup declared : m.chunk \notin removed => m \in said' \cup declared'
    BY <1>4 DEF Cascade
  <1>8. EndpointsAreMentioned'
    <2> SUFFICES ASSUME NEW r \in relations', NEW e \in {r.source, r.target}
                 PROVE  \E m \in said' \cup declared' : m.entity = e /\ m.chunk = r.chunk
      BY DEF EndpointsAreMentioned
    <2>1. r \in relations /\ r.chunk \notin removed
      BY <1>2, <1>4
    <2>2. PICK m \in said \cup declared : m.entity = e /\ m.chunk = r.chunk
      BY <2>1 DEF IInv, EndpointsAreMentioned
    <2> QED
      BY <1>7, <2>1, <2>2
  <1>9. MentionsResolve'
    <2> SUFFICES ASSUME NEW m \in said' \cup declared'
                 PROVE  \/ KeyOf[m.entity.name] = KeyOf[m.surface]
                        \/ [entity |-> m.entity, key |-> KeyOf[m.surface]] \in aliases'
      BY <1>4 DEF MentionsResolve, Exact
    <2>1. m.entity \in Exact(KeyOf[m.surface])
      BY <1>2, <1>4 DEF IInv, MentionsResolve
    <2>2. CASE [entity |-> m.entity, key |-> KeyOf[m.surface]] \in aliases
      BY <1>4, <2>2
    <2> QED
      BY <2>1, <2>2 DEF Exact
  <1>10. MentionsMirrorLastAnswer'
    <2>1. \A c \in Chunks : told'[c] = IF c \in removed THEN {} ELSE told[c]
      BY DEF Remove
    <2> SUFFICES ASSUME NEW c \in Chunks
                 PROVE  /\ \A m \in said' : m.chunk = c => m.surface \in told'[c]
                        /\ \A n \in told'[c] : \E m \in said' \cup declared' :
                                m.chunk = c /\ m.surface = n
      BY DEF MentionsMirrorLastAnswer
    <2>2. CASE c \in removed
      BY <1>2, <1>4, <2>1, <2>2
    <2>3. CASE c \notin removed
      <3>1. told'[c] = told[c] /\ \A m \in said' : m \in said
        BY <1>4, <2>1, <2>3 DEF Cascade
      <3> QED
        BY <1>7, <2>3, <3>1 DEF IInv, MentionsMirrorLastAnswer
    <2> QED
      BY <2>2, <2>3
  <1>11. DeclaredTitleStands'
    <2> SUFFICES ASSUME NEW b \in Documents, header'[b].aliases # {}
                 PROVE  TitleMentions(header'[b].title, ChunksOf(b)' \ takenOver') \subseteq declared'
      BY DEF DeclaredTitleStands
    <2>1. header'[b] = header[b] /\ b \notin gone
      BY DEF Remove, NoHeader
    <2>2. \A c \in ChunksOf(b)' : c \in ChunksOf(b) /\ c \notin removed
      BY <1>5 DEF ChunksOf
    <2>3. \A c \in ChunksOf(b)' : c \notin takenOver' => c \notin takenOver
      BY <2>2 DEF Remove
    <2>4. TitleMentions(header[b].title, ChunksOf(b) \ takenOver) \subseteq declared
      BY <2>1 DEF IInv, DeclaredTitleStands
    <2>5. \A m \in TitleMentions(header[b].title, ChunksOf(b)' \ takenOver') :
              /\ m \in TitleMentions(header[b].title, ChunksOf(b) \ takenOver)
              /\ m.chunk \notin removed
      BY <2>2, <2>3 DEF TitleMentions
    <2> QED
      BY <1>4, <2>1, <2>4, <2>5 DEF Cascade
  <1>12. LinksAreNamed'
    BY DEF Remove, passes, IInv, LinksAreNamed, NamesOf
  <1> QED
    BY <1>4, <1>6, <1>8, <1>9, <1>10, <1>11, <1>12, RemoveTypes DEF IInv

-----------------------------------------------------------------------------
(* Extraction.                                                             *)

LEMMA StoreKeeps ==
    ASSUME IInv, NEW p \in Passes, StoreFacts(p)
    PROVE  IInv'
  <1> DEFINE c == reading[p]
             facts == resolved[p]
             fresh == NewMentions(c, facts)
             ents == entities \cup {r.entity : r \in facts}
             vecs == vectors \cup {r.entity : r \in {f \in facts : f.isNew}}
             rows == aliases \cup NewAliases(facts)
             extracted == ClearMentions(said, {c}) \cup fresh
             fromHeader == declared \ fresh
  <1>1. PICK end \in Endpoints(facts) :
            Collect(ents, vecs, rows, extracted, fromHeader,
                    ClearRelations(relations, {c}) \cup NewRelations(c, links[p], end))
    BY DEF StoreFacts
  <1> DEFINE made == NewRelations(c, links[p], end)
             rels == ClearRelations(relations, {c}) \cup made
  <1>2. c \in Chunks /\ facts \in SUBSET Resolutions /\ c \in chunks /\ chunks' = chunks
    BY ReadyFacts DEF StoreFacts
  <1>3. \A rel \in made : /\ rel.chunk = c
                          /\ \E r \in facts : rel.source = r.entity
                          /\ \E r \in facts : rel.target = r.entity
    BY ReadyFacts, NewRelationsAreRows
  <1>4. /\ \A m \in fresh :
            /\ m.chunk = c
            /\ \E r \in facts : m.entity = r.entity /\ m.surface = r.extracted.name
        /\ \A r \in facts : \E m \in fresh :
            m.entity = r.entity /\ m.surface = r.extracted.name
        /\ \A r \in facts :
            \/ KeyOf[r.extracted.name] = KeyOf[r.entity.name]
            \/ [entity |-> r.entity, key |-> KeyOf[r.extracted.name]] \in NewAliases(facts)
    BY <1>2, FactsAreRows
  <1>5. /\ \A m \in extracted \cup fromHeader :
            m \in fresh \/ (m \in said /\ m.chunk # c) \/ m \in declared
        /\ \A r \in rels : r \in made \/ (r \in relations /\ r.chunk # c)
    <2> HIDE DEF c, fresh, made
    <2>1. \A m \in ClearMentions(said, {c}) : m \in said /\ m.chunk # c
      BY DEF ClearMentions
    <2>2. \A r \in ClearRelations(relations, {c}) : r \in relations /\ r.chunk # c
      BY DEF ClearRelations
    <2> QED
      BY <2>1, <2>2
  <1>6. /\ \A m \in extracted \cup fromHeader : m.entity \in ents
        /\ \A r \in rels : r.source \in ents /\ r.target \in ents
        /\ vecs \subseteq ents
    BY <1>3, <1>4, <1>5 DEF IInv, GraphCitesLiveRows
  <1>7. /\ said' = extracted /\ declared' = fromHeader /\ relations' = rels
        /\ EntitiesAreReferenced'
        /\ \A m \in said' \cup declared' : m.entity \in entities'
        /\ \A r \in relations' : {r.source, r.target} \subseteq entities'
        /\ \A a \in aliases' : a.entity \in entities'
        /\ \A a \in rows : a.entity \in entities' => a \in aliases'
        /\ vectors' \subseteq entities'
    <2>1. Collect(ents, vecs, rows, extracted, fromHeader, rels)
      BY <1>1
    <2> HIDE DEF ents, vecs, rows, extracted, fromHeader, rels
    <2> QED
      BY <1>6, <2>1, CollectionIsSafe
  <1>8. GraphCitesLiveRows'
    <2>1. \A m \in said' \cup declared' : m.chunk \in chunks
      BY <1>2, <1>4, <1>5, <1>7 DEF IInv, GraphCitesLiveRows
    <2>2. \A r \in relations' : r.chunk \in chunks
      BY <1>2, <1>3, <1>5, <1>7 DEF IInv, GraphCitesLiveRows
    <2> QED
      BY <1>2, <1>7, <2>1, <2>2 DEF GraphCitesLiveRows
  <1>9. EndpointsAreMentioned'
    <2> SUFFICES ASSUME NEW r \in relations', NEW e \in {r.source, r.target}
                 PROVE  \E m \in said' \cup declared' : m.entity = e /\ m.chunk = r.chunk
      BY DEF EndpointsAreMentioned
    <2>1. CASE r \in made
      BY <1>3, <1>4, <1>7, <2>1
    <2>2. CASE r \in relations /\ r.chunk # c
      <3>1. PICK m \in said \cup declared : m.entity = e /\ m.chunk = r.chunk
        BY <2>2 DEF IInv, EndpointsAreMentioned
      <3>2. m \in said' \cup declared'
        BY <1>4, <1>7, <2>2, <3>1 DEF ClearMentions
      <3> QED
        BY <3>1, <3>2
    <2> QED
      BY <1>5, <1>7, <2>1, <2>2
  <1>10. MentionsResolve'
    <2> SUFFICES ASSUME NEW m \in said' \cup declared'
                 PROVE  \/ KeyOf[m.entity.name] = KeyOf[m.surface]
                        \/ [entity |-> m.entity, key |-> KeyOf[m.surface]] \in aliases'
      BY <1>7 DEF MentionsResolve, Exact
    <2>1. m.entity \in entities'
      BY <1>7
    <2>2. CASE m \in fresh
      <3>1. PICK r \in facts : m.entity = r.entity /\ m.surface = r.extracted.name
        BY <1>4, <2>2
      <3>2. CASE [entity |-> r.entity, key |-> KeyOf[r.extracted.name]] \in NewAliases(facts)
        BY <1>7, <2>1, <3>1, <3>2
      <3> QED
        BY <1>4, <3>1, <3>2
    <2>3. CASE m \in said \cup declared
      <3>1. m.entity \in Exact(KeyOf[m.surface])
        BY <2>3 DEF IInv, MentionsResolve
      <3>2. CASE [entity |-> m.entity, key |-> KeyOf[m.surface]] \in aliases
        BY <1>7, <2>1, <3>2
      <3> QED
        BY <3>1, <3>2 DEF Exact
    <2> QED
      BY <1>5, <1>7, <2>2, <2>3
  <1>11. MentionsMirrorLastAnswer'
    <2>1. told' = [told EXCEPT ![c] = {r.extracted.name : r \in facts}]
      BY DEF StoreFacts
    <2>2. told \in [Chunks -> SUBSET Names]
      BY DEF IInv, TypeOK
    <2> SUFFICES ASSUME NEW b \in Chunks
                 PROVE  /\ \A m \in said' : m.chunk = b => m.surface \in told'[b]
                        /\ \A n \in told'[b] : \E m \in said' \cup declared' :
                                m.chunk = b /\ m.surface = n
      BY DEF MentionsMirrorLastAnswer
    <2>3. CASE b = c
      <3>1. told'[b] = {r.extracted.name : r \in facts}
        BY <1>2, <2>1, <2>2, <2>3
      <3>2. \A m \in said' : m.chunk = b => m \in fresh
        BY <1>7, <2>3 DEF ClearMentions
      <3>3. \A m \in fresh : m \in said'
        BY <1>7
      <3> QED
        BY <1>4, <2>3, <3>1, <3>2, <3>3
    <2>4. CASE b # c
      <3>1. told'[b] = told[b]
        BY <2>1, <2>2, <2>4
      <3>2. \A m \in said' : m.chunk = b => m \in said
        BY <1>4, <1>7, <2>4 DEF ClearMentions
      <3>3. \A m \in said \cup declared : m.chunk = b => m \in said' \cup declared'
        BY <1>4, <1>7, <2>4 DEF ClearMentions
      <3> QED
        BY <3>1, <3>2, <3>3 DEF IInv, MentionsMirrorLastAnswer
    <2> QED
      BY <2>3, <2>4
  <1>12. DeclaredTitleStands'
    <2>1. header' = header /\ takenOver' = takenOver \cup (IF declared \cap fresh = {} THEN {} ELSE {c})
      BY DEF StoreFacts
    <2> SUFFICES ASSUME NEW b \in Documents, header[b].aliases # {},
                        NEW m \in TitleMentions(header[b].title, ChunksOf(b)' \ takenOver')
                 PROVE  m \in declared'
      BY <2>1 DEF DeclaredTitleStands
    <2>2. m.chunk \in ChunksOf(b) /\ m.chunk \notin takenOver'
      BY <1>2 DEF TitleMentions, ChunksOf
    <2>3. m \in TitleMentions(header[b].title, ChunksOf(b) \ takenOver)
      BY <1>2, <2>1 DEF TitleMentions, ChunksOf
    <2>4. m \in declared
      BY <2>3 DEF IInv, DeclaredTitleStands
    <2>5. m \notin fresh
      BY <1>4, <2>1, <2>2, <2>4
    <2> QED
      BY <1>7, <2>4, <2>5
  <1>13. LinksAreNamed'
    BY DEF StoreFacts, Forget, IInv, TypeOK, LinksAreNamed, NamesOf
  <1> QED
    BY <1>7, <1>8, <1>9, <1>10, <1>11, <1>12, <1>13, StoreTypes DEF IInv

(* The steps that leave the graph as it is, or drop vectors.               *)
LEMMA QuietStepsKeep ==
    ASSUME IInv, TypeOK', LinksAreNamed',
           UNCHANGED <<header, chunks, entities, aliases, said, declared, relations,
                       told, takenOver>>,
           vectors' \subseteq vectors
    PROVE  IInv'
  BY DEF IInv, GraphCitesLiveRows, EntitiesAreReferenced, EndpointsAreMentioned, Exact,
     MentionsResolve, MentionsMirrorLastAnswer, DeclaredTitleStands, ChunksOf

LEMMA ExtractKeeps ==
    ASSUME IInv, NEW p \in Passes, NEW c \in chunks, NEW answer \in Answers,
           Extract(p, c, answer)
    PROVE  IInv'
  <1>1. /\ answer.entities \subseteq Entities
        /\ answer.links \subseteq Names \X Names
        /\ \A link \in answer.links :
                {link[1], link[2]} \subseteq {e.name : e \in answer.entities}
    BY SanitizedAnswers DEF Sanitized
  <1>2. TypeOK'
    BY <1>1 DEF Extract, graph, IInv, TypeOK
  <1>3. LinksAreNamed'
    <2> SUFFICES ASSUME NEW q \in Passes, NEW link \in links'[q]
                 PROVE  {link[1], link[2]} \subseteq NamesOf(q)'
      BY DEF LinksAreNamed
    <2>1. CASE q = p
      BY <1>1, <2>1 DEF Extract, IInv, TypeOK, NamesOf
    <2>2. CASE q # p
      BY <2>2 DEF Extract, IInv, TypeOK, LinksAreNamed, NamesOf
    <2> QED
      BY <2>1, <2>2
  <1> QED
    BY <1>2, <1>3, QuietStepsKeep DEF Extract, graph

LEMMA ForgettingKeeps ==
    ASSUME IInv,
           \/ \E p \in Passes : Fail(p)
           \/ \E redimension \in BOOLEAN : Reopen(redimension)
    PROVE  IInv'
  <1>1. TypeOK'
    BY DEF Fail, Forget, Reopen, graph, IInv, TypeOK
  <1>2. LinksAreNamed'
    <2>1. ASSUME NEW p \in Passes, Fail(p)
          PROVE  LinksAreNamed'
      BY <2>1 DEF Fail, Forget, IInv, TypeOK, LinksAreNamed, NamesOf
    <2>2. ASSUME NEW redimension \in BOOLEAN, Reopen(redimension)
          PROVE  LinksAreNamed'
      BY <2>2 DEF Reopen, LinksAreNamed
    <2> QED
      BY <2>1, <2>2
  <1>3. vectors' \subseteq vectors
    BY DEF Fail, Reopen, graph
  <1> QED
    BY <1>1, <1>2, <1>3, QuietStepsKeep DEF Fail, Reopen, graph

-----------------------------------------------------------------------------
LEMMA InvariantInit == Init => IInv
  BY TypeInit DEF Init, IInv, GraphCitesLiveRows, EntitiesAreReferenced,
     EndpointsAreMentioned, MentionsResolve, MentionsMirrorLastAnswer,
     DeclaredTitleStands, LinksAreNamed, NoHeader

LEMMA InvariantStep ==
    ASSUME IInv, [Next]_vars
    PROVE  IInv'
  <1>1. CASE Ingestion
    <2>1. CASE \E gone \in {{d} : d \in Documents} \cup {Documents} : Remove(gone)
      BY <2>1, RemoveKeeps
    <2> QED
      BY <1>1, <2>1, IngestKeeps DEF Ingestion
  <1>2. ASSUME NEW p \in Passes, Extraction(p)
        PROVE  IInv'
    <2>1. ASSUME NEW extracted \in todo[p], Resolve(p, extracted)
          PROVE  IInv'
      BY <2>1, ResolveTypes, QuietStepsKeep DEF Resolve, graph
    <2> QED
      BY <1>2, <2>1, ExtractKeeps, StoreKeeps, ForgettingKeeps DEF Extraction
  <1>3. CASE \E redimension \in BOOLEAN : Reopen(redimension)
    BY <1>3, ForgettingKeeps
  <1>4. CASE UNCHANGED vars
    <2>1. TypeOK' /\ LinksAreNamed'
      BY <1>4 DEF vars, graph, passes, IInv, TypeOK, LinksAreNamed, NamesOf
    <2> QED
      BY <1>4, <2>1, QuietStepsKeep DEF vars, graph
  <1> QED
    BY <1>1, <1>2, <1>3, <1>4 DEF Next

(* The strengthened invariant holds of every behaviour.                    *)
LEMMA InvariantHolds == Spec => []IInv
  BY InvariantInit, InvariantStep, PTL DEF Spec

(* Every variable has its type, whatever ingestion and models return.      *)
THEOREM TypeCorrect == Spec => []TypeOK
  <1>1. IInv => TypeOK
    BY DEF IInv
  <1> QED
    BY <1>1, InvariantHolds, PTL

(* No row, vector or late answer outlives what it points to: the graph     *)
(* never cites a chunk or an entity that is gone.                          *)
THEOREM GraphNeverDangles == Spec => []GraphCitesLiveRows
  <1>1. IInv => GraphCitesLiveRows
    BY DEF IInv
  <1> QED
    BY <1>1, InvariantHolds, PTL

(* The collector at the end of each transaction leaves no entity that      *)
(* nothing references, in whatever order ingestion and answers come.       *)
THEOREM NothingIsOrphaned == Spec => []EntitiesAreReferenced
  <1>1. IInv => EntitiesAreReferenced
    BY DEF IInv
  <1> QED
    BY <1>1, InvariantHolds, PTL

(* A relation's ends are mentioned by its supporting chunk: mentions alone *)
(* decide what is kept.                                                    *)
THEOREM RelationsAreGrounded == Spec => []EndpointsAreMentioned
  <1>1. IInv => EndpointsAreMentioned
    BY DEF IInv
  <1> QED
    BY <1>1, InvariantHolds, PTL

(* Every form that a stored mention uses finds its entity again, although  *)
(* it was resolved outside the transaction.                                *)
THEOREM MentionedFormsResolve == Spec => []MentionsResolve
  <1>1. IInv => MentionsResolve
    BY DEF IInv
  <1> QED
    BY <1>1, InvariantHolds, PTL

(* Re-extraction replaces: what a chunk is said to mention is the last     *)
(* answer for its text.                                                    *)
THEOREM AnswersReplaceEachOther == Spec => []MentionsMirrorLastAnswer
  <1>1. IInv => MentionsMirrorLastAnswer
    BY DEF IInv
  <1> QED
    BY <1>1, InvariantHolds, PTL

(* What front matter declares stands unless an answer took it over.        *)
THEOREM DeclarationsStand == Spec => []DeclaredTitleStands
  <1>1. IInv => DeclaredTitleStands
    BY DEF IInv
  <1> QED
    BY <1>1, InvariantHolds, PTL

=============================================================================
