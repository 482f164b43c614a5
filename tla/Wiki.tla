---------------------------------- MODULE Wiki ----------------------------------
(***************************************************************************)
(* The wiki: documents in the categories of a section, and the tree and    *)
(* the pages that readers get from Redis.                                  *)
(*                                                                         *)
(* A write is one transaction.  It reads the category it places a document *)
(* in, or counts the documents of the category it deletes, without a lock. *)
(* Its commit is followed by the deletion of every cached key, whose       *)
(* failure is only logged.  A reader that finds nothing in the cache reads *)
(* the tables and sets the key later, for an hour.                         *)
(***************************************************************************)
EXTENDS Integers, FiniteSets

CONSTANTS
    Documents,  \* ids of table wiki_documents
    Categories, \* ids of table wiki_categories, of one section that allows them
    Slugs,      \* names of documents in their section
    Intros,     \* slugs that are shown at the root of the section whatever their category
    Editors,    \* goroutines of administrators and readers
    Missing      \* NULL, nothing cached

Texts == {0, 1} \* what a document says, and how a category is called

VARIABLES
    document, \* rows of wiki_documents
    category, \* rows of wiki_categories
    shown,    \* the cached tree and pages: their value, and whether nobody will remove them for being out of date
    editor    \* the request every goroutine is serving

wikiVars == <<document, category, shown, editor>>

Places == Slugs \cup {"tree"} \* the keys cache:wiki:*

NoDocument == [state |-> "none", published |-> FALSE, slug |-> Missing, under |-> Missing, text |-> 0]

Unoccupied == [stage |-> "idle", op |-> "none", id |-> Missing, field |-> "none", value |-> Missing, saw |-> {}]

WikiInit ==
    /\ document = [d \in Documents |-> NoDocument]
    /\ category = [c \in Categories |-> [state |-> "none", label |-> 0]]
    /\ shown = [k \in Places |-> Missing]
    /\ editor = [e \in Editors |-> Unoccupied]

Done(e) == editor' = [editor EXCEPT ![e] = Unoccupied]

-----------------------------------------------------------------------------
\* Readers

LiveCategories == {c \in Categories : category[c].state = "live"}

Visible == {d \in Documents : document[d].state = "live" /\ document[d].published}

\* The two queries of the tree: the categories, then the documents.
CategoryList == {<<c, category[c].label>> : c \in LiveCategories}

DocumentList == {[id |-> d, slug |-> document[d].slug, under |-> document[d].under] : d \in Visible}

\* buildTree: an introduction, and a document whose category is gone, are at the root.
TreeOf(list, docs) ==
    LET names == {l[1] : l \in list} IN
    <<list, {[d EXCEPT !.under = IF d.slug \in Intros \/ @ \notin names THEN Missing ELSE @] : d \in docs}>>

NameOf(c) == IF c \in LiveCategories THEN category[c].label ELSE Missing

\* The page of a slug: the document, its text and the name of its category.
PageOf(d) == <<d, document[d].text, NameOf(document[d].under)>>

\* GetPublishedDoc: the document under a slug.
Found(k) == {d \in Visible : document[d].slug = k}

\* What a key should hold; Missing when there is no such page, which is not cached.
Current(k) ==
    IF k = "tree" THEN TreeOf(CategoryList, DocumentList)
    ELSE IF Found(k) = {} THEN Missing ELSE PageOf(CHOOSE d \in Found(k) : TRUE)

\* GetTree up to its first query.
BeginTree(e) ==
    /\ editor[e].stage = "idle"
    /\ shown["tree"] = Missing
    /\ editor' = [editor EXCEPT ![e] = [Unoccupied EXCEPT !.stage = "tree", !.saw = CategoryList]]
    /\ UNCHANGED <<document, category, shown>>

ReadTree(e) ==
    /\ editor[e].stage = "tree"
    /\ editor' = [editor EXCEPT ![e] = [Unoccupied EXCEPT !.stage = "store", !.id = "tree",
                                                          !.value = TreeOf(editor[e].saw, DocumentList)]]
    /\ UNCHANGED <<document, category, shown>>

\* GetDoc up to its first query, which says in which category the document is.
ReadPage(e, k) ==
    /\ editor[e].stage = "idle"
    /\ shown[k] = Missing /\ Found(k) # {}
    /\ LET d == CHOOSE d \in Found(k) : TRUE IN
       editor' = [editor EXCEPT ![e] = [Unoccupied EXCEPT !.stage = "page", !.id = k,
                                            !.value = <<d, document[d].text, document[d].under>>]]
    /\ UNCHANGED <<document, category, shown>>

\* The query of the category, whose failure leaves the name out.
ReadName(e) ==
    LET read == editor[e].value IN
    /\ editor[e].stage = "page"
    /\ \E name \in {NameOf(read[3]), Missing} :
          editor' = [editor EXCEPT ![e] = [Unoccupied EXCEPT !.stage = "store", !.id = editor[e].id,
                                               !.value = <<read[1], read[2], name>>]]
    /\ UNCHANGED <<document, category, shown>>

Store(e) ==
    LET k == editor[e].id IN
    /\ editor[e].stage = "store"
    /\ shown' = [shown EXCEPT ![k] = [value |-> editor[e].value, late |-> editor[e].value # Current(k)]]
    /\ Done(e)
    /\ UNCHANGED <<document, category>>

\* wikiCacheTTL.
EndPage(k) ==
    /\ shown[k] # Missing
    /\ shown' = [shown EXCEPT ![k] = Missing]
    /\ UNCHANGED <<document, category, editor>>

-----------------------------------------------------------------------------
\* Writers

\* The caches are emptied for documents that are published only: DocumentsSound.
FaultyCommitted(e, d) ==
    editor' = [editor EXCEPT ![e] = IF d \in Visible THEN [Unoccupied EXCEPT !.stage = "written"] ELSE Unoccupied]

\* withWriteTx after its commit.
Committed(e, d) == editor' = [editor EXCEPT ![e] = [Unoccupied EXCEPT !.stage = "written"]]

\* invalidateCache, or its failure: what is cached then stays.
Invalidate(e) ==
    /\ editor[e].stage = "written"
    /\ \/ shown' = [k \in Places |-> Missing]
       \/ shown' = [k \in Places |-> IF shown[k] = Missing THEN Missing ELSE [shown[k] EXCEPT !.late = TRUE]]
    /\ Done(e)
    /\ UNCHANGED <<document, category>>

CreateCategory(e, c) ==
    /\ editor[e].stage = "idle"
    /\ category[c].state = "none"
    /\ category' = [category EXCEPT ![c].state = "live"]
    /\ Committed(e, Missing)
    /\ UNCHANGED <<document, shown>>

UpdateCategory(e, c, label) ==
    /\ editor[e].stage = "idle"
    /\ category[c].state = "live"
    /\ category' = [category EXCEPT ![c].label = label]
    /\ Committed(e, Missing)
    /\ UNCHANGED <<document, shown>>

DocsIn(c) == {d \in Documents : document[d].state = "live" /\ document[d].under = c}

\* A category counts as empty when nothing in it is published: DocumentsExplained.
FaultyEmpty(c) == DocsIn(c) \cap Visible = {}

Empty(c) == DocsIn(c) = {}

\* DeleteCategory counts, and deletes later in its transaction.
BeginDeleteCategory(e, c) ==
    /\ editor[e].stage = "idle"
    /\ category[c].state = "live" /\ Empty(c)
    /\ editor' = [editor EXCEPT ![e] = [Unoccupied EXCEPT !.stage = "write", !.op = "drop", !.id = c, !.saw = DocsIn(c)]]
    /\ UNCHANGED <<document, category, shown>>

DropCategory(e) ==
    /\ editor[e].stage = "write" /\ editor[e].op = "drop"
    /\ category' = [category EXCEPT ![editor[e].id].state = "deleted"]
    /\ Committed(e, Missing)
    /\ UNCHANGED <<document, shown>>

\* validateDocPlacement: no category, or one that is there.
Placeable(c) == c \in LiveCategories \cup {Missing}

\* CreateDoc and UpdateDoc up to their write.  An update sets one field; its document must
\* be placed well with it, whatever the field is.
BeginCreateDoc(e, d, slug, c) ==
    /\ editor[e].stage = "idle"
    /\ document[d].state = "none" /\ Placeable(c)
    /\ editor' = [editor EXCEPT ![e] = [Unoccupied EXCEPT !.stage = "write", !.op = "create", !.id = d,
                                                          !.field = slug, !.value = c, !.saw = LiveCategories]]
    /\ UNCHANGED <<document, category, shown>>

BeginUpdateDoc(e, d, field, v) ==
    /\ editor[e].stage = "idle"
    /\ document[d].state = "live"
    /\ Placeable(IF field = "under" THEN v ELSE document[d].under)
    /\ editor' = [editor EXCEPT ![e] = [Unoccupied EXCEPT !.stage = "write", !.op = "update", !.id = d,
                                                          !.field = field, !.value = v, !.saw = LiveCategories]]
    /\ UNCHANGED <<document, category, shown>>

\* The unique index on the slugs of documents that are not deleted.
Taken(slug, d) == \E x \in Documents \ {d} : document[x].state = "live" /\ document[x].slug = slug

WriteDoc(e) ==
    LET d == editor[e].id
        v == editor[e].value
        row == IF editor[e].op = "create"
               THEN [NoDocument EXCEPT !.state = "live", !.slug = editor[e].field, !.under = v]
               ELSE [document[d] EXCEPT ![editor[e].field] = v] IN
    /\ editor[e].stage = "write" /\ editor[e].op \in {"create", "update"}
    /\ document[d].state = IF editor[e].op = "create" THEN "none" ELSE "live"
    /\ ~Taken(row.slug, d)
    /\ document' = [document EXCEPT ![d] = row]
    /\ Committed(e, d)
    /\ UNCHANGED <<category, shown>>

\* A slug that is taken, a document that is gone, an error of PostgreSQL, of Redis.
Refuse(e) ==
    /\ editor[e].stage \in {"tree", "store", "write"}
    /\ Done(e)
    /\ UNCHANGED <<document, category, shown>>

SetDocPublished(e, d, published) ==
    /\ editor[e].stage = "idle"
    /\ document[d].state = "live"
    /\ document' = [document EXCEPT ![d].published = published]
    /\ Committed(e, d)
    /\ UNCHANGED <<category, shown>>

\* What a deleted row still says is not read again.
DeleteDoc(e, d) ==
    /\ editor[e].stage = "idle"
    /\ document[d].state = "live"
    /\ document' = [document EXCEPT ![d] = [NoDocument EXCEPT !.state = "deleted"]]
    /\ Committed(e, d)
    /\ UNCHANGED <<category, shown>>

-----------------------------------------------------------------------------
TreeNext == \E e \in Editors : BeginTree(e) \/ ReadTree(e)

SlugNext == \E e \in Editors : ReadName(e) \/ \E k \in Slugs : ReadPage(e, k)

CacheNext == (\E e \in Editors : Store(e)) \/ (\E k \in Places : EndPage(k))

EditorsNext ==
    \/ \E e \in Editors : Invalidate(e) \/ DropCategory(e) \/ WriteDoc(e) \/ Refuse(e)
    \/ \E e \in Editors, c \in Categories : CreateCategory(e, c) \/ BeginDeleteCategory(e, c)
    \/ \E e \in Editors, c \in Categories, t \in Texts : UpdateCategory(e, c, t)
    \/ \E e \in Editors, d \in Documents, k \in Slugs, c \in Categories \cup {Missing} : BeginCreateDoc(e, d, k, c)
    \/ \E e \in Editors, d \in Documents :
          \/ \E c \in Categories \cup {Missing} : BeginUpdateDoc(e, d, "under", c)
          \/ \E k \in Slugs : BeginUpdateDoc(e, d, "slug", k)
          \/ \E t \in Texts : BeginUpdateDoc(e, d, "text", t)
    \/ \E e \in Editors, d \in Documents, b \in BOOLEAN : SetDocPublished(e, d, b)
    \/ \E e \in Editors, d \in Documents : DeleteDoc(e, d)

WikiNext == TreeNext \/ SlugNext \/ CacheNext \/ EditorsNext

WikiSpec == WikiInit /\ [][WikiNext]_wikiVars

-----------------------------------------------------------------------------
\* Properties

WikiTypeOK ==
    /\ document \in [Documents -> [state : {"none", "live", "deleted"}, published : BOOLEAN,
                                   slug : Slugs \cup {Missing}, under : Categories \cup {Missing}, text : Texts]]
    /\ category \in [Categories -> [state : {"none", "live", "deleted"}, label : Texts]]
    /\ \A e \in Editors : editor[e].stage \in {"idle", "tree", "page", "store", "write", "written"}

\* A cached tree or page is what the tables give now, except between a commit and the
\* emptying of the caches, and for an hour when that failed or when the reader that set it
\* had read before, or not got the name of the category: no document that was taken down
\* stays visible for another reason.
ShownKnown ==
    \A k \in Places :
        shown[k] # Missing /\ shown[k].value # Current(k) =>
            shown[k].late \/ \E e \in Editors : editor[e].stage = "written"

\* A document lies in a category that is there.
Homed(d) == document[d].state = "live" => Placeable(document[d].under)

\* A document is left in a deleted category, where its text cannot be edited, only when its
\* placement and the deletion overlapped: one of them did not see what the other wrote.
OrphansExplained ==
    [][\A d \in Documents :
          Homed(d) => \/ Homed(d)'
                      \/ \E e \in Editors :
                            /\ editor[e].stage = "write" /\ editor'[e] # editor[e]
                            /\ editor[e].saw # IF editor[e].op = "drop" THEN DocsIn(editor[e].id)
                                               ELSE LiveCategories]_wikiVars
=============================================================================
