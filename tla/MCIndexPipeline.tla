-------------------------- MODULE MCIndexPipeline --------------------------
EXTENDS IndexPipeline, TLC

Symmetry == Permutations(Chunks) \cup Permutations(Texts) \cup Permutations(Passes)

AllFiles == [Chunks -> TextOrNone]

AllMigrations ==
    {m \in [changed : SUBSET Kinds, redimension : BOOLEAN] :
        m.redimension => "embed" \in m.changed}

(* A file of which one chunk is edited and the others are left alone.      *)
OneChunkEdited ==
    LET edited == CHOOSE c \in Chunks : TRUE
    IN  {text \in [Chunks -> Texts] :
            \A c \in Chunks \ {edited} : text[c] = CHOOSE t \in Texts : TRUE}

-----------------------------------------------------------------------------
(* What the future of the queue depends on while nobody opens the store    *)
(* again.  No guard reads the history (lapse), what data was derived from  *)
(* (derived) or, without an open, what was done; of a text it matters      *)
(* whether there is one, since an edit can always make it another, and of  *)
(* an id whether a pass remembers the one the row has.                     *)

RowView(row) == [row EXCEPT !.id = NoId]

CopyView(p, c) ==
    IF copy[p][c] = NoCopy THEN {}
    ELSE {<<copy[p][c].attempts, copy[p][c].id = jobs[turn[p]][c].id>>}

QueueView ==
    <<{c \in Chunks : content[c] # NoText},
      [k \in Kinds |-> [c \in Chunks |-> RowView(jobs[k][c])]],
      turn,
      [p \in Passes |-> [c \in Chunks |-> CopyView(p, c)]],
      [p \in Passes |-> Asked(p)],
      orphans>>

=============================================================================
