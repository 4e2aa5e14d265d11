--------------------------- MODULE TagVocabulary ---------------------------
(***************************************************************************)
(* The tags of products and of people, profiling/vocab.py: both are named  *)
(* from one vocabulary, so that a dislike and a product meet, and the tags *)
(* of a product are computed once (lru_cache) for one list of catalog      *)
(* brands, which the catalog reader replaces while other threads compute   *)
(* (set_catalog_brands).                                                   *)
(*                                                                         *)
(* The dictionary of brands is cleared, filled and counted in three steps  *)
(* that other threads see.  The reader sets it under its own lock, so      *)
(* there is one setter.  A name is a member of a small set and the words   *)
(* in it are a set: how spellings are normalised and how a word is found   *)
(* in a text (norm, base, _word) is left out, with the tags a tag of       *)
(* several words has.  So are products that bring their tags from the      *)
(* database (CatalogLoads).                                                *)
(***************************************************************************)
EXTENDS Integers, Sequences, FiniteSets

CONSTANTS
    Shelf,      \* products: brand column, words of the name, partner, kind
    BrandRows,  \* brand.tsv: canonical name, names, names that count in a text, others
    IpRows,     \* ip.tsv: the IP, a character, its names, its names that need company
    GroupRows,  \* category_groups.tsv: name, aliases, kinds and words that do and do not
    Questions,  \* bound: which tag of a person is asked of which product
    Catalogs,   \* catalogs: sets of products
    Namers,     \* the threads that name tags
    MaxComputed,  \* lru_cache(maxsize)
    MaxKey,     \* bound: how often the brands change
    NoProduct

VARIABLES
    brands,     \* _CATALOG_BRANDS
    key,        \* _CATALOG_KEY
    computed,   \* what _compute_cached remembers
    setter,     \* where set_catalog_brands is
    naming      \* where every thread is in matcher() and tag_set()

tagVars == <<brands, key, computed, setter, naming>>

Shelved == DOMAIN Shelf

(* brand.tsv has no canonical name twice, and a row answers to its own *)
(* (_brands). *)
VocabularyAssumption ==
    /\ DOMAIN BrandRows \subseteq Nat
    /\ \A i \in DOMAIN BrandRows : BrandRows[i].canon \in BrandRows[i].names
    /\ \A i, j \in DOMAIN BrandRows : BrandRows[i].canon = BrandRows[j].canon => i = j
    /\ \A q \in Questions : q.product \in Shelved
    /\ {MaxComputed, MaxKey} \subseteq Nat

-----------------------------------------------------------------------------
(* The vocabulary. *)

(* brand_canonical: the first row that has the name. *)
RowsWith(b) == {i \in DOMAIN BrandRows : b \in BrandRows[i].names}
BrandCanonical(b) ==
    IF RowsWith(b) = {} THEN b
    ELSE BrandRows[CHOOSE i \in RowsWith(b) : \A j \in RowsWith(b) : i <= j].canon

(* _ips: the names of an IP that stand alone, and all names there are. *)
NamesOf(ip) == UNION {{r.ip, r.character} \union r.names : r \in {r \in IpRows : r.ip = ip}}
IpNames == UNION {NamesOf(r.ip) \union r.loose : r \in IpRows}

(* _brand_mentions: an IP's name is left to the IP. *)
Surfaces(row) == row.mentioned \ IpNames

(* _ip_hit: a name that needs company counts with another name of its IP. *)
IpHit(rows, s) ==
    \/ \E r \in rows : (r.names \union {r.character}) \cap s.words # {}
    \/ \E r \in rows : r.loose \cap s.words # {} /\ NamesOf(r.ip) \cap (s.words \union s.brand) # {}

IpTags(s) ==
    {ip \in {r.ip : r \in IpRows} :
        ip \in s.words \/ IpHit({r \in IpRows : r.ip = ip}, s)}
    \union {ch \in {r.character : r \in IpRows} : IpHit({r \in IpRows : r.character = ch}, s)}

GroupNames(g) == {g.name} \union g.aliases

(* _in_group, _named_in_group, and the group's own name in the text. *)
GroupTags(s) ==
    {g.name : g \in {g \in GroupRows :
        /\ s.kind \notin g.dropped
        /\ \/ s.kind \in g.kinds \/ g.name \in s.words
           \/ g.words \cap s.words # {} /\ g.except \cap s.words = {}}}

(* _compute, for the catalog brands `known`. *)
Partner(p, known) ==
    LET s == Shelf[p] IN {s.partner} \cap (known \ (s.brand \union IpNames))

TagsWith(p, partner) ==
    LET s == Shelf[p]
        mentioned == {r \in {BrandRows[i] : i \in DOMAIN BrandRows} :
                        ~s.compatible /\ r.distinct \cap s.brand = {} /\ Surfaces(r) \cap s.words # {}}
    IN  ({"brand"} \X ({BrandCanonical(b) : b \in s.brand \union partner}
                       \union {r.canon : r \in mentioned}))
        \union ({"ip"} \X IpTags(s)) \union ({"category"} \X GroupTags(s))

TagsOf(p, known) == TagsWith(p, Partner(p, known))

Canonicals(d) ==
    CASE d.axis = "brand" -> {BrandRows[i].canon : i \in RowsWith(d.text)}
      [] d.axis = "ip" -> IF \E r \in IpRows : r.ip = d.text THEN {d.text}
                          ELSE {r.character : r \in {r \in IpRows :
                                   d.text \in {r.character} \union r.names \union r.loose}}
      [] d.axis = "category" -> {g.name : g \in {g \in GroupRows : d.text \in GroupNames(g)}}

(* matcher: what is not in the vocabulary is looked for as it is written. *)
Literal(d, p) ==
    LET s == Shelf[p]
    IN  \/ d.text \in s.words
        \/ d.axis = "category" /\ d.text = s.kind
        \/ d.axis = "brand" /\ d.text \in s.brand

Hits(d, p, tags) == \E c \in Canonicals(d) : <<d.axis, c>> \in tags

-----------------------------------------------------------------------------
NotNaming == [at |-> "rest", product |-> NoProduct, dislike |-> NoProduct, key |-> 0,
            partner |-> {}, hit |-> FALSE, clean |-> FALSE]

VocabularyTypeOK ==
    /\ key \in 0..MaxKey
    /\ setter.at \in {"idle", "clear", "update", "count"}
    /\ Cardinality(computed) <= MaxComputed
    /\ \A e, f \in computed : e.product = f.product /\ e.key = f.key => e = f
    /\ \A t \in Namers :
         naming[t].at \in {"rest", "look", "check", "name", "keep", "answered", "failed"}

VocabularyInit ==
    /\ brands = {} /\ key = 0 /\ computed = {}
    /\ setter = [at |-> "idle", new |-> {}]
    /\ naming = [t \in Namers |-> NotNaming]

-----------------------------------------------------------------------------
(* set_catalog_brands *)
BrandsOf(catalog) == UNION {Shelf[p].brand : p \in catalog}

SetBrands(catalog) ==
    /\ setter.at = "idle" /\ key < MaxKey /\ BrandsOf(catalog) # brands
    /\ setter' = [at |-> "clear", new |-> BrandsOf(catalog)]
    /\ naming' = [t \in Namers |-> [naming[t] EXCEPT !.clean = FALSE]]
    /\ UNCHANGED <<brands, key, computed>>

Clear ==
    /\ setter.at = "clear" /\ brands' = {}
    /\ setter' = [setter EXCEPT !.at = "update"] /\ UNCHANGED <<key, computed, naming>>

Update ==
    /\ setter.at = "update" /\ brands' = setter.new
    /\ setter' = [setter EXCEPT !.at = "count"] /\ UNCHANGED <<key, computed, naming>>

CountUp ==
    /\ setter.at = "count" /\ key' = key + 1
    /\ setter' = [at |-> "idle", new |-> {}] /\ UNCHANGED <<brands, computed, naming>>

-----------------------------------------------------------------------------
(* A thread asks whether a dislike hits a product: matcher, then tag_set. *)

NamingGoes(t, v) == naming' = [naming EXCEPT ![t] = v] /\ UNCHANGED <<brands, key, setter>>

(* The tag's canonical names; without one the text itself is looked for. *)
Ask(t, d, p) ==
    /\ naming[t].at \in {"rest", "answered", "failed"}
    /\ LET asked == [NotNaming EXCEPT !.product = p, !.dislike = d,
                                    !.clean = setter.at = "idle"]
       IN  NamingGoes(t, IF Canonicals(d) # {} THEN [asked EXCEPT !.at = "look", !.key = key]
                   ELSE [asked EXCEPT !.at = "answered", !.hit = Literal(d, p)])
    /\ UNCHANGED computed

AnsweredWith(t, tags) ==
    [naming[t] EXCEPT !.at = "answered", !.key = 0, !.partner = {},
                      !.hit = Hits(naming[t].dislike, naming[t].product, tags)]

Recalled(t) == {e \in computed : e.product = naming[t].product /\ e.key = naming[t].key}

LookUp(t) ==
    /\ naming[t].at = "look"
    /\ \/ Recalled(t) = {} /\ NamingGoes(t, [naming[t] EXCEPT !.at = "check"])
       \/ \E e \in Recalled(t) : NamingGoes(t, AnsweredWith(t, e.tags))
    /\ UNCHANGED computed

(* `in _CATALOG_BRANDS`, and then `_CATALOG_BRANDS[key]`, which raises if *)
(* the dictionary was cleared in between. *)
CheckPartner(t) ==
    /\ naming[t].at = "check"
    /\ NamingGoes(t, IF Partner(naming[t].product, brands) = {} THEN [naming[t] EXCEPT !.at = "keep"]
               ELSE [naming[t] EXCEPT !.at = "name"])
    /\ UNCHANGED computed

NamePartner(t) ==
    LET found == Partner(naming[t].product, brands)
    IN  /\ naming[t].at = "name"
        /\ NamingGoes(t, IF found = {} THEN [naming[t] EXCEPT !.at = "failed"]
                   ELSE [naming[t] EXCEPT !.at = "keep", !.partner = found])
        /\ UNCHANGED computed

(* The first result for a product and a key is kept; the oldest goes. *)
KeepTags(t) ==
    LET tags == TagsWith(naming[t].product, naming[t].partner)
        new == [product |-> naming[t].product, key |-> naming[t].key, tags |-> tags]
    IN  /\ naming[t].at = "keep"
        /\ IF Recalled(t) # {} THEN UNCHANGED computed
           ELSE IF Cardinality(computed) < MaxComputed THEN computed' = computed \union {new}
           ELSE \E old \in computed : computed' = (computed \ {old}) \union {new}
        /\ NamingGoes(t, AnsweredWith(t, tags))

VocabularyNext ==
    \/ \E c \in Catalogs : SetBrands(c)
    \/ Clear \/ Update \/ CountUp
    \/ \E t \in Namers :
         \/ \E q \in Questions : Ask(t, q.tag, q.product)
         \/ LookUp(t) \/ CheckPartner(t) \/ NamePartner(t) \/ KeepTags(t)

VocabularySpec == VocabularyInit /\ [][VocabularyNext]_tagVars

-----------------------------------------------------------------------------
(* Tags follow the catalog: whatever was computed while the brands were *)
(* being replaced, nothing of it is remembered for the brands there are *)
(* now, and a question during which they stay is answered as if computed *)
(* from them (vocab.py set_catalog_brands, tag_set). *)
TagsFollowBrands ==
    /\ setter.at = "idle" =>
         \A e \in computed : e.key = key => e.tags = TagsOf(e.product, brands)
    /\ \A t \in Namers :
         LET q == naming[t]
         IN  q.clean =>
               /\ q.at # "failed"
               /\ q.at = "answered" =>
                    q.hit = IF Canonicals(q.dislike) = {} THEN Literal(q.dislike, q.product)
                            ELSE Hits(q.dislike, q.product, TagsOf(q.product, brands))

(* People and products meet: a dislike of a brand, by any name its row *)
(* has, hits the products of that brand, and a product that only shares a *)
(* word with a company of another name is not hit for it (vocab.py *)
(* canonicals, brand_canonical, _brand_mentions). *)
NamesMeet ==
    \A t \in Namers :
        LET q == naming[t]
        IN  q.at = "answered" /\ q.dislike.axis = "brand" =>
              /\ (\E i \in RowsWith(q.dislike.text), b \in Shelf[q.product].brand :
                     BrandRows[i].canon = BrandCanonical(b)) => q.hit
              /\ (\A i \in RowsWith(q.dislike.text) :
                     /\ BrandRows[i].distinct \cap Shelf[q.product].brand # {}
                     /\ BrandRows[i].names \cap ({Shelf[q.product].partner} \union Shelf[q.product].brand) = {})
                   /\ RowsWith(q.dislike.text) # {} => ~q.hit
=============================================================================
