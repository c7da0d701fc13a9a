--------------------------- MODULE PackagesProofs ---------------------------
(* Proofs about publishing and installing, for every set of files, every     *)
(* history of a project and any number of kills.  The argument: what lies in *)
(* the registry was put there by an edition of that version that lists it,   *)
(* editions only grow, and a copy in progress lies between what was listed   *)
(* when it began and what the registry holds now.  A torn file is either not *)
(* yet below a manifest, or of a later edition than the manifest, or of an   *)
(* edition that was published once more over its manifest.                   *)
EXTENDS Packages, FiniteSetTheorems, TLAPS

\* The file x under a name of a version was put there by an edition.
Genuine(v, name, x) ==
    x # 0 => x \in begun /\ editions[x].version = v /\ name \in Listing(x)

\* A publication has put there what it neither has yet to copy nor is copying.
Publishing ==
    LET place == registry[editions[Latest].version] IN
    /\ publish.edition = Latest /\ Latest \in begun
    /\ publish.todo \subseteq editions[Latest].files
    /\ publish.open \subseteq Listing(Latest) \ publish.todo
    /\ \A name \in publish.open : publish.open = {name}
    /\ \A name \in editions[Latest].files \ publish.todo :
        /\ place.tree[name] = Latest
        /\ name \in place.torn => name \in publish.open
    /\ Manifest \in publish.open => publish.todo = {}
    /\ place.tree[Manifest] = Latest /\ Manifest \notin publish.open => Latest \in again

AuthorInv ==
    /\ \A x \in begun : x <= Latest
    /\ \A v \in Versions, name \in Names : Genuine(v, name, registry[v].tree[name])
    /\ \A v \in Versions : \A name \in registry[v].torn : registry[v].tree[name] # 0
    /\ publish.at = "idle" => publish.open = {}
    /\ publish.at = "copy" => Publishing
    /\ ManifestLast

\* What a copy in progress knows of a name, given what its source holds.
CopyOf(name, source) ==
    LET v == install.version
        listed == install.seen.tree[name]
        copied == target.tree[name] IN
    /\ Genuine(v, name, listed) /\ Genuine(v, name, copied)
    /\ listed <= source.tree[name]
    /\ name \in install.todo \cup install.open => listed # 0
    /\ name \in install.seen.torn => listed # 0
    /\ name \in target.torn => listed # 0 /\ name \notin install.todo
    /\ IF listed # 0 /\ name \notin install.todo
       THEN /\ listed <= copied /\ copied <= source.tree[name]
            /\ install.intact =>
                copied = listed /\ (name \in target.torn <=> name \in install.seen.torn)
       ELSE copied = 0

\* An edition that nothing else was published over, nor it over its manifest.
Quiet(e, v) == OnlyEdition(e, v) /\ e \notin again

Copying ==
    LET v == install.version
        e == install.seen.tree[Manifest] IN
    /\ v \in Versions
    /\ target.kind = "dir" /\ install.seen.kind = "dir"
    /\ install.open \cap install.todo = {}
    /\ \A name \in Names : CopyOf(name, registry[v])
    /\ e # 0 => \A name \in editions[e].files :
        /\ install.seen.tree[name] # 0
        /\ Quiet(e, v) => name \notin target.torn

UserInv ==
    /\ IF install.at = "copy" THEN Copying ELSE install.open = {}
    /\ install.at \in {"clone", "clean"} =>
            install.seen = Dir(install.seen.tree) /\ install.seen.tree[Git] = 0
    /\ install.at \in {"unstage", "clone", "clean"} => install.how = "git"
    /\ install.at = "clean" => staging = With(install.seen, Git, 1)
    /\ install.at = "remove" /\ install.how = "git" =>
            staging = install.seen /\ install.seen.tree[Git] = 0
    /\ install.at = "remove" /\ install.how = "registry" => install.version \in Published

IInv == TypeOK /\ AuthorInv /\ UserInv

-----------------------------------------------------------------------------
\* What the names are and are not.
LEMMA NameFacts ==
    /\ Manifest \in Names /\ Git \in Names /\ Files \subseteq Names
    /\ Manifest \notin Files /\ Git \notin Files /\ Git # Manifest
    /\ MaxEditions \in Nat /\ MaxEditions > 0 /\ MaxFaults \in Nat
BY FilesAssumption, BoundsAssumption DEF Names, Manifest, Git

\* Making, emptying and changing a directory keeps it one.
LEMMA PlaceFacts ==
    /\ Bare \in Trees /\ Absent \in Places /\ Link \in Places
    /\ \A tree \in Trees : Dir(tree) \in Places
    /\ \A tree : Dir(tree).tree = tree /\ Dir(tree).kind = "dir" /\ Dir(tree).torn = {}
    /\ \A name \in Names : Bare[name] = 0
    /\ \A place \in Places, name \in Names :
            place.tree \in Trees /\ place.tree[name] \in 0..MaxEditions
BY NameFacts DEF Bare, Trees, Absent, Places, Link, Dir

LEMMA WriteFacts ==
    ASSUME NEW place \in Places, NEW name \in Names, NEW e \in 0..MaxEditions
    PROVE  /\ With(place, name, e) \in Places /\ Torn(place, name, e) \in Places
           /\ With(place, name, e).kind = "dir" /\ Torn(place, name, e).kind = "dir"
           /\ With(place, name, e).torn = place.torn \ {name}
           /\ Torn(place, name, e).torn = place.torn \cup {name}
           /\ With(place, name, e).tree = Torn(place, name, e).tree
           /\ \A other \in Names :
                With(place, name, e).tree[other] = IF other = name THEN e
                                                   ELSE place.tree[other]
BY NameFacts DEF Trees, Places, With, Torn

\* An edition is a number.
LEMMA TreeFacts == \A tree \in Trees, name \in Names : tree[name] \in Nat
BY NameFacts DEF Trees

\* An edition of the project lists files and its manifest, and has a version.
LEMMA EditionFacts ==
    ASSUME TypeOK, NEW e \in 1..Latest
    PROVE  /\ editions[e].files \subseteq Files /\ editions[e].version \in Versions
           /\ Git \notin Listing(e) /\ Listing(e) \subseteq Names
           /\ Tree(e) \in Trees /\ Tree(e)[Git] = 0
<1>1. editions[e] \in Projects
  BY DEF TypeOK, Latest
<1>2. editions[e].files \subseteq Files /\ editions[e].version \in Versions
  BY <1>1, ProjectsAssumption
<1>3. Git \notin Listing(e) /\ Listing(e) \subseteq Names
  BY <1>2, NameFacts DEF Listing
<1>4. e \in 0..MaxEditions
  BY NameFacts DEF TypeOK, Latest
<1>5. Tree(e) \in Trees /\ Tree(e)[Git] = 0
  BY <1>3, <1>4, NameFacts DEF Tree, Trees
<1> QED BY <1>2, <1>3, <1>5

\* What lies under a name of a version was put there by an edition so far.
LEMMA ShelfFacts ==
    ASSUME IInv, NEW v \in Versions, NEW name \in Names, registry[v].tree[name] # 0
    PROVE  registry[v].tree[name] \in 1..Latest /\ name \in Listing(registry[v].tree[name])
<1>1. registry[v].tree[name] \in begun /\ name \in Listing(registry[v].tree[name])
  BY DEF IInv, AuthorInv, Genuine
<1>2. \A x \in begun : x \in 1..MaxEditions /\ x <= Latest
  BY DEF IInv, AuthorInv, TypeOK
<1>3. Latest \in Nat
  BY DEF IInv, TypeOK, Latest
<1> QED BY <1>1, <1>2, <1>3, NameFacts

-----------------------------------------------------------------------------
\* Nothing is published or installed at first.
LEMMA InitHolds == Init => IInv
<1> SUFFICES ASSUME Init PROVE IInv
  OBVIOUS
<1> USE NameFacts, PlaceFacts DEF Init
<1>1. editions \in Seq(Projects) /\ Len(editions) = 1
  OBVIOUS
<1>2. TypeOK
  BY <1>1 DEF TypeOK, NoPublish, NoInstall, Installs, Absent, Bare
<1>3. AuthorInv
  BY DEF AuthorInv, Genuine, NoPublish, Absent, Bare, ManifestLast
<1>4. UserInv
  BY DEF UserInv, NoInstall
<1> QED BY <1>2, <1>3, <1>4 DEF IInv

-----------------------------------------------------------------------------
(* The author's steps.                                                      *)

\* What an author's step may do to what others rely on.
Grows ==
    /\ \A x \in begun : x \in begun' /\ editions'[x] = editions[x]
    /\ again \subseteq again'
    /\ \A v \in Versions : registry[v].kind = "dir" => registry'[v].kind = "dir"
    /\ \A v \in Versions, name \in Names :
            registry[v].tree[name] <= registry'[v].tree[name]

\* A file once put there by an edition stays so.
LEMMA GenuineStays ==
    ASSUME Grows, NEW v, NEW name, NEW x, Genuine(v, name, x)
    PROVE  Genuine(v, name, x)'
BY DEF Grows, Genuine, Listing

\* A user's command in progress does not notice a registry that grows.
LEMMA UserKept ==
    ASSUME IInv, TypeOK', Grows, UNCHANGED user PROVE UserInv'
<1> USE DEF user
<1>1. ASSUME install.at = "copy" PROVE Copying'
  <2> DEFINE v == install.version
             e == install.seen.tree[Manifest]
  <2>1. Copying
    BY <1>1 DEF IInv, UserInv
  <2>2. v \in Versions /\ target.kind = "dir"
    BY <2>1 DEF Copying
  <2>3. ASSUME NEW name \in Names PROVE CopyOf(name, registry[v])'
    <3>1. /\ install.seen.tree[name] \in Nat /\ target.tree[name] \in Nat
          /\ registry[v].tree[name] \in Nat /\ registry'[v].tree[name] \in Nat
      BY <2>2 DEF IInv, TypeOK, Installs, Trees, Places
    <3>2. registry[v].tree[name] <= registry'[v].tree[name]
      BY <2>2 DEF Grows
    <3>3. CopyOf(name, registry[v])
      BY <2>1 DEF Copying
    <3>4. /\ Genuine(v, name, install.seen.tree[name])
          /\ Genuine(v, name, target.tree[name])
      BY <3>3 DEF CopyOf
    <3>5. /\ Genuine(v, name, install.seen.tree[name])'
          /\ Genuine(v, name, target.tree[name])'
      BY <3>4, GenuineStays DEF Genuine, Listing, Grows
    <3> QED BY <3>1, <3>2, <3>3, <3>5 DEF CopyOf
  <2>4. e # 0 => editions'[e] = editions[e]
    <3>1. Genuine(v, Manifest, e)
      BY <2>1, NameFacts DEF Copying, CopyOf
    <3> QED BY <3>1 DEF Genuine, Grows
  <2>5. Genuine(v, Manifest, e) /\ (e # 0 /\ Quiet(e, v)' => Quiet(e, v))
    <3>1. Genuine(v, Manifest, e)
      BY <2>1, NameFacts DEF Copying, CopyOf
    <3> QED BY <3>1 DEF Genuine, Grows, Quiet, OnlyEdition
  <2>6. e # 0 => \A name \in editions'[e].files :
            /\ install.seen.tree[name] # 0
            /\ Quiet(e, v)' => name \notin target.torn
    BY <2>1, <2>4, <2>5 DEF Copying
  <2> QED BY <2>1, <2>2, <2>3, <2>6 DEF Copying
<1>2. Published \subseteq Published'
  BY DEF Grows, Published
<1> QED BY <1>1, <1>2 DEF IInv, UserInv, With, Dir

\* An edit adds an edition that nobody has published.
LEMMA EditHolds == ASSUME IInv, NEW p \in Projects, Edit(p) PROVE IInv'
<1> USE NameFacts DEF Edit, IInv
<1>1. /\ editions' \in Seq(Projects) /\ Len(editions') = Len(editions) + 1
      /\ \A e \in 1..Len(editions) : editions'[e] = editions[e]
  BY DEF TypeOK
<1>2. TypeOK'
  BY <1>1 DEF TypeOK, user, Latest
<1>3. \A x \in begun : x \in 1..Len(editions)
  BY DEF TypeOK, AuthorInv, Latest
<1>4. Grows
  BY <1>1, <1>3 DEF Grows, TypeOK, Places, Trees
<1>5. AuthorInv'
  <2>1. \A x \in begun' : x <= Latest'
    BY <1>1, <1>3 DEF Latest
  <2>2. \A v \in Versions, name \in Names : Genuine(v, name, registry[v].tree[name])'
    BY <1>1, <1>3 DEF AuthorInv, Genuine, Listing
  <2>3. publish'.at # "copy" /\ publish' = publish /\ registry' = registry
    OBVIOUS
  <2>4. ManifestLast'
    BY <1>1, <1>3 DEF AuthorInv, ManifestLast, Genuine
  <2> QED BY <2>1, <2>2, <2>3, <2>4 DEF AuthorInv
<1>6. UserInv'
  BY <1>2, <1>4, UserKept
<1> QED BY <1>2, <1>5, <1>6

\* A publication makes the directory and notes the edition.
LEMMA StartHolds == ASSUME IInv, StartPublish PROVE IInv'
<1> USE NameFacts, PlaceFacts DEF StartPublish, IInv
<1> DEFINE w == editions[Latest].version
<1>1. Latest \in 1..MaxEditions /\ Latest \in 1..Latest
  BY DEF TypeOK, Latest
<1>2. w \in Versions /\ editions[Latest].files \subseteq Files
  BY <1>1, EditionFacts
<1>3. /\ registry' \in [Versions -> Places] /\ registry'[w].kind = "dir"
      /\ \A v \in Versions : /\ registry'[v].tree = registry[v].tree
                             /\ registry'[v].torn = registry[v].torn
                             /\ registry'[v].kind \in {"dir", registry[v].kind}
  <2>1. registry \in [Versions -> Places] /\ registry[w] \in Places
    BY <1>2 DEF TypeOK
  <2> DEFINE place == registry[w]
             there == [place EXCEPT !.kind = "dir"]
  <2>2. registry' = [registry EXCEPT ![w] = there]
    OBVIOUS
  <2>3. there \in Places /\ there.tree = place.tree /\ there.torn = place.torn
        /\ there.kind = "dir"
    <3> HIDE DEF place
    <3>1. place \in Places
      BY <2>1 DEF place
    <3> QED BY <3>1 DEF Places
  <2> HIDE DEF there
  <2> QED BY <1>2, <2>1, <2>2, <2>3
<1>4. TypeOK'
  <2>1. editions' \in Seq(Projects) /\ Len(editions') \in 1..MaxEditions
    BY DEF TypeOK
  <2>2. publish' \in [at : {"idle", "copy"}, edition : 0..MaxEditions,
                      todo : SUBSET Files, open : SUBSET Names]
    <3> DEFINE all == editions[Latest].files
    <3>1. publish' = [at |-> "copy", edition |-> Latest, todo |-> all, open |-> {}]
      BY DEF NoPublish
    <3>2. all \in SUBSET Files /\ Latest \in 0..MaxEditions
      BY <1>1, <1>2
    <3> HIDE DEF all, StartPublish
    <3> QED BY <3>1, <3>2
  <2>3. begun' \in SUBSET (1..MaxEditions) /\ again' \in SUBSET begun'
    <3>1. begun \in SUBSET (1..MaxEditions) /\ begun' = begun \cup {Latest}
          /\ again \in SUBSET begun /\ again' \subseteq again \cup {Latest}
      BY DEF TypeOK
    <3> QED BY <1>1, <3>1
  <2> QED BY <1>3, <2>1, <2>2, <2>3 DEF TypeOK, user
<1>5. Grows
  <2>1. ASSUME NEW v \in Versions, NEW name \in Names
        PROVE  registry[v].tree[name] <= registry'[v].tree[name]
    <3>1. registry[v].tree[name] \in 0..MaxEditions
      <4>1. registry[v] \in Places
        BY DEF TypeOK
      <4> QED BY <4>1, PlaceFacts
    <3>2. registry'[v].tree[name] = registry[v].tree[name]
      BY <1>3
    <3> QED BY <3>1, <3>2, NameFacts
  <2>2. \A x \in begun : x \in begun' /\ editions'[x] = editions[x]
    OBVIOUS
  <2>3. again \subseteq again'
    OBVIOUS
  <2>4. \A v \in Versions : registry[v].kind = "dir" => registry'[v].kind = "dir"
    BY <1>3
  <2> QED BY <2>1, <2>2, <2>3, <2>4 DEF Grows
<1>6. AuthorInv'
  <2>1. \A x \in begun' : x <= Latest'
    BY <1>1 DEF AuthorInv, Latest
  <2>2. \A v \in Versions, name \in Names : Genuine(v, name, registry[v].tree[name])'
    <3> SUFFICES ASSUME NEW v \in Versions, NEW name \in Names
                 PROVE  Genuine(v, name, registry[v].tree[name])'
      OBVIOUS
    <3>1. Genuine(v, name, registry[v].tree[name])
      BY DEF AuthorInv
    <3>2. registry'[v].tree[name] = registry[v].tree[name]
      BY <1>3
    <3> QED BY <3>1, <3>2, <1>5 DEF Grows, Genuine, Listing
  <2>3. \A v \in Versions : \A name \in registry'[v].torn : registry'[v].tree[name] # 0
    BY <1>3 DEF AuthorInv
  <2>4. publish'.at = "copy" /\ Publishing'
    <3>1. /\ publish'.at = "copy" /\ publish'.edition = Latest'
          /\ publish'.todo = editions'[Latest'].files /\ publish'.open = {}
      BY DEF NoPublish, Latest
    <3>2. editions' = editions /\ Latest' = Latest
      BY DEF Latest
    <3>3. Latest \in begun'
      OBVIOUS
    <3>4. registry'[w].tree[Manifest] = Latest => Latest \in again'
      BY <1>2, <1>3
    <3> QED BY <3>1, <3>2, <3>3, <3>4 DEF Publishing
  <2>5. ManifestLast'
    <3>1. again \subseteq again'
      OBVIOUS
    <3> QED BY <1>3, <3>1 DEF AuthorInv, ManifestLast
  <2> QED BY <2>1, <2>2, <2>3, <2>4, <2>5 DEF AuthorInv
<1>7. UserInv'
  BY <1>4, <1>5, UserKept
<1> QED BY <1>4, <1>6, <1>7

\* A name of the edition being published is opened or ended.
Puts(name, place) ==
    LET w == editions[publish.edition].version IN
    /\ publish.at = "copy" /\ name \in Listing(Latest)
    /\ registry' = [registry EXCEPT ![w] = place]
    /\ \/ place = Torn(registry[w], name, Latest)
       \/ place = With(registry[w], name, Latest)
    /\ UNCHANGED <<editions, begun, again>>

\* Then the edition is under that name, and all else is as before.
IsPut(name, place) ==
    LET w == editions[Latest].version IN
    /\ w \in Versions /\ Latest \in begun /\ Latest \in 1..Latest /\ name \in Names
    /\ registry' \in [Versions -> Places] /\ registry'[w] = place
    /\ \A v \in Versions : /\ registry[v].kind = "dir" => registry'[v].kind = "dir"
                           /\ v # w => registry'[v] = registry[v]
    /\ \A v \in Versions, n \in Names :
        /\ registry'[v].tree[n] = IF v = w /\ n = name THEN Latest ELSE registry[v].tree[n]
        /\ registry[v].tree[n] \in 0..Latest
        /\ registry[v].tree[n] <= registry'[v].tree[n]

LEMMA PublishesFacts ==
    ASSUME IInv, NEW name, NEW place, Puts(name, place) PROVE IsPut(name, place)
<1> USE NameFacts, PlaceFacts DEF IInv
<1> DEFINE w == editions[Latest].version
           p == registry[w]
<1>1. Latest \in 1..MaxEditions /\ Latest \in 1..Latest
  BY DEF TypeOK, Latest
<1>2. w \in Versions /\ name \in Names
  BY <1>1, EditionFacts DEF Puts
<1>3. publish.edition = Latest /\ Latest \in begun
  BY DEF AuthorInv, Publishing, Puts
<1>4. registry \in [Versions -> Places] /\ registry' = [registry EXCEPT ![w] = place]
  BY <1>3 DEF TypeOK, Puts
<1>5. /\ place \in Places /\ place.kind = "dir"
      /\ \A n \in Names : place.tree[n] = IF n = name THEN Latest ELSE p.tree[n]
  <2>1. p \in Places /\ (place = Torn(p, name, Latest) \/ place = With(p, name, Latest))
    BY <1>2, <1>3, <1>4 DEF Puts
  <2>2. Latest \in 0..MaxEditions
    BY <1>1
  <2> HIDE DEF p
  <2>3. CASE place = Torn(p, name, Latest)
    <3>1. /\ Torn(p, name, Latest) \in Places /\ Torn(p, name, Latest).kind = "dir"
          /\ \A n \in Names : Torn(p, name, Latest).tree[n] = IF n = name THEN Latest
                                                              ELSE p.tree[n]
      BY <1>2, <2>1, <2>2 DEF Torn, Places, Trees
    <3> QED BY <2>3, <3>1
  <2>4. CASE place = With(p, name, Latest)
    <3>1. /\ With(p, name, Latest) \in Places /\ With(p, name, Latest).kind = "dir"
          /\ \A n \in Names : With(p, name, Latest).tree[n] = IF n = name THEN Latest
                                                              ELSE p.tree[n]
      BY <1>2, <2>1, <2>2 DEF With, Places, Trees
    <3> QED BY <2>4, <3>1
  <2> QED BY <2>1, <2>3, <2>4
<1>6. registry' \in [Versions -> Places] /\ registry'[w] = place
  BY <1>2, <1>4, <1>5
<1>7. ASSUME NEW v \in Versions
      PROVE  /\ registry[v].kind = "dir" => registry'[v].kind = "dir"
             /\ v # w => registry'[v] = registry[v]
  BY <1>4, <1>5, <1>6
<1>8. ASSUME NEW v \in Versions, NEW n \in Names
      PROVE  /\ registry'[v].tree[n] = IF v = w /\ n = name THEN Latest
                                       ELSE registry[v].tree[n]
             /\ registry[v].tree[n] \in 0..Latest
  <2>1. registry'[v].tree[n] = IF v = w /\ n = name THEN Latest ELSE registry[v].tree[n]
    BY <1>5, <1>6, <1>7
  <2>2. registry[v].tree[n] \in 0..MaxEditions
    BY <1>4
  <2>3. registry[v].tree[n] # 0 => registry[v].tree[n] <= Latest
    BY DEF AuthorInv, Genuine
  <2> QED BY <1>1, <2>1, <2>2, <2>3
<1> QED BY <1>1, <1>2, <1>3, <1>6, <1>7, <1>8 DEF IsPut

\* What such a step keeps, whichever name it is.
LEMMA PublishesKeeps ==
    ASSUME IInv, NEW name, NEW place, Puts(name, place)
    PROVE  /\ Grows
           /\ \A x \in begun' : x <= Latest'
           /\ \A v \in Versions, n \in Names : Genuine(v, n, registry[v].tree[n])'
           /\ \A v \in Versions : \A n \in registry'[v].torn : registry'[v].tree[n] # 0
<1> USE NameFacts DEF IInv
<1> DEFINE w == editions[Latest].version
<1>1. IsPut(name, place) /\ UNCHANGED <<editions, begun, again>>
  BY PublishesFacts DEF Puts
<1>2. Grows
  BY <1>1 DEF Grows, IsPut
<1>3. \A x \in begun' : x <= Latest'
  BY <1>1 DEF AuthorInv, Latest
<1>4. ASSUME NEW v \in Versions, NEW n \in Names PROVE Genuine(v, n, registry[v].tree[n])'
  <2>1. Genuine(v, n, registry[v].tree[n])
    BY DEF AuthorInv
  <2>2. name \in Listing(Latest)
    BY DEF Puts
  <2>3. CASE v = w /\ n = name
    BY <1>1, <2>2, <2>3 DEF IsPut, Genuine, Listing
  <2>4. CASE ~(v = w /\ n = name)
    BY <1>1, <2>1, <2>4 DEF IsPut, Genuine, Listing
  <2> QED BY <2>3, <2>4
<1>5. ASSUME NEW v \in Versions, NEW n \in registry'[v].torn PROVE registry'[v].tree[n] # 0
  <2>1. n \in Names
    BY <1>1 DEF IsPut, Places
  <2>2. CASE v = w /\ n = name
    BY <1>1, <2>1, <2>2 DEF IsPut
  <2>3. CASE ~(v = w /\ n = name)
    <3>1. n \in registry[v].torn
      <4>1. publish.edition = Latest
        BY DEF AuthorInv, Publishing, Puts
      <4>2. CASE v # w
        BY <1>1, <1>5, <4>2 DEF IsPut
      <4>3. CASE v = w
        BY <1>1, <1>5, <2>3, <4>1, <4>3 DEF IsPut, Puts, With, Torn
      <4> QED BY <4>2, <4>3
    <3> QED BY <1>1, <2>1, <2>3, <3>1 DEF AuthorInv, IsPut
  <2> QED BY <2>2, <2>3
<1> QED BY <1>2, <1>3, <1>4, <1>5

\* A file comes before the manifest of its edition, which is not there yet, or
\* there from before.
LEMMA FileHolds == ASSUME IInv, NEW name \in Files, PublishFile(name) PROVE IInv'
<1> USE NameFacts DEF PublishFile, Opens, IInv
<1> DEFINE w == editions[Latest].version
           place == Torn(registry[w], name, Latest)
<1>1. Publishing /\ name \in editions[Latest].files /\ publish.open = {}
  BY DEF AuthorInv, Publishing
<1>2. Puts(name, place) /\ UNCHANGED <<editions, begun, again>>
  BY <1>1 DEF Listing, Publishing, Puts
<1>3. /\ w \in Versions /\ Latest \in begun /\ Latest \in 1..Latest /\ name \in Names
      /\ registry' \in [Versions -> Places] /\ registry'[w] = place
      /\ \A v \in Versions : v # w => registry'[v] = registry[v]
      /\ \A v \in Versions, n \in Names :
            /\ registry'[v].tree[n] = IF v = w /\ n = name THEN Latest
                                      ELSE registry[v].tree[n]
            /\ registry[v].tree[n] \in 0..Latest
            /\ registry[v].tree[n] <= registry'[v].tree[n]
  <2> HIDE DEF place
  <2>1. IsPut(name, place)
    BY <1>2, PublishesFacts
  <2> QED BY <2>1 DEF IsPut
<1>4. /\ Grows
      /\ \A x \in begun' : x <= Latest'
      /\ \A v \in Versions, n \in Names : Genuine(v, n, registry[v].tree[n])'
      /\ \A v \in Versions : \A n \in registry'[v].torn : registry'[v].tree[n] # 0
  <2> HIDE DEF place
  <2> QED BY <1>2, PublishesKeeps
<1>5. place.torn = registry[w].torn \cup {name}
  BY DEF Torn
<1> HIDE DEF place
<1>6. /\ publish'.at = "copy" /\ publish'.edition = Latest
      /\ publish'.todo = publish.todo \ {name} /\ publish'.open = {name}
      /\ publish' \in [at : {"idle", "copy"}, edition : 0..MaxEditions,
                       todo : SUBSET Files, open : SUBSET Names]
  BY <1>1, <1>3 DEF TypeOK, Publishing
<1>7. TypeOK'
  BY <1>3, <1>6 DEF TypeOK, user
<1>8. Publishing'
  <2>1. editions' = editions /\ Latest' = Latest /\ begun' = begun /\ again' = again
    BY DEF Latest
  <2>2. publish'.todo \subseteq editions[Latest].files
    BY <1>1, <1>6 DEF Publishing
  <2>3. publish'.open \subseteq Listing(Latest) \ publish'.todo
    BY <1>2, <1>6 DEF Puts
  <2>4. ASSUME NEW n \in editions[Latest].files \ publish'.todo
        PROVE  registry'[w].tree[n] = Latest /\ (n \in registry'[w].torn => n \in publish'.open)
    <3>1. n \in Names
      BY <1>3, EditionFacts
    <3> QED BY <1>1, <1>3, <1>5, <1>6, <3>1 DEF Publishing
  <2>5. Manifest \notin publish'.open /\ name # Manifest
    BY <1>6
  <2>6. registry'[w].tree[Manifest] = Latest => Latest \in again
    BY <1>1, <1>3, <2>5 DEF Publishing
  <2>7. \A n \in publish'.open : publish'.open = {n}
    BY <1>6
  <2> QED BY <1>3, <1>6, <2>1, <2>2, <2>3, <2>4, <2>5, <2>6, <2>7 DEF Publishing, Listing
<1>9. ManifestLast'
  <2> SUFFICES ASSUME NEW v \in Versions, registry'[v].tree[Manifest] # 0,
                      NEW n \in editions[registry'[v].tree[Manifest]].files
               PROVE  /\ registry'[v].tree[n] >= registry'[v].tree[Manifest]
                      /\ n \in registry'[v].torn =>
                            \/ registry'[v].tree[n] > registry'[v].tree[Manifest]
                            \/ registry'[v].tree[Manifest] \in again
    BY DEF ManifestLast
  <2> DEFINE e == registry[v].tree[Manifest]
  <2>1. registry'[v].tree[Manifest] = e /\ e \in 1..Latest
    <3>1. name # Manifest
      OBVIOUS
    <3>2. registry'[v].tree[Manifest] = e
      BY <1>3, <3>1
    <3>3. e \in 0..Latest /\ e # 0
      BY <1>3, <3>2
    <3> HIDE DEF e
    <3> QED BY <3>2, <3>3
  <2>2. n \in Names
    BY <2>1, EditionFacts
  <2>3. /\ registry[v].tree[n] >= e
        /\ n \in registry[v].torn => registry[v].tree[n] > e \/ e \in again
    BY <2>1 DEF AuthorInv, ManifestLast
  <2>4. registry[v].tree[n] \in 0..Latest /\ registry[v].tree[n] <= registry'[v].tree[n]
    BY <1>3, <2>2
  <2>5. CASE v = w /\ n = name
    <3>1. registry'[v].tree[n] = Latest
      BY <1>3, <2>2, <2>5
    <3>2. e = Latest => e \in again
      BY <1>1, <2>5 DEF Publishing
    <3>3. Latest \in Nat
      BY DEF TypeOK, Latest
    <3> HIDE DEF e
    <3> QED BY <2>1, <2>3, <3>1, <3>2, <3>3
  <2>6. CASE ~(v = w /\ n = name)
    <3>1. registry'[v].tree[n] = registry[v].tree[n]
      BY <1>3, <2>2, <2>6
    <3>2. n \in registry'[v].torn => n \in registry[v].torn
      BY <1>3, <1>5, <2>6
    <3> QED BY <2>1, <2>3, <3>1, <3>2
  <2> QED BY <2>5, <2>6
<1>10. AuthorInv'
  BY <1>4, <1>6, <1>8, <1>9 DEF AuthorInv
<1>11. UserInv'
  BY <1>4, <1>7, UserKept
<1> QED BY <1>7, <1>10, <1>11

\* The manifest is opened when every file of its edition is written.
LEMMA ManifestHolds == ASSUME IInv, PublishManifest PROVE IInv'
<1> USE NameFacts DEF PublishManifest, Opens, IInv
<1> DEFINE w == editions[Latest].version
           place == Torn(registry[w], Manifest, Latest)
<1>1. Publishing /\ publish.todo = {} /\ publish.open = {}
  BY DEF AuthorInv
<1>2. Puts(Manifest, place) /\ UNCHANGED <<editions, begun, again>>
  BY <1>1 DEF Listing, Publishing, Puts
<1>3. /\ w \in Versions /\ Latest \in begun /\ Latest \in 1..Latest
      /\ registry' \in [Versions -> Places] /\ registry'[w] = place
      /\ \A v \in Versions : v # w => registry'[v] = registry[v]
      /\ \A v \in Versions, n \in Names :
            /\ registry'[v].tree[n] = IF v = w /\ n = Manifest THEN Latest
                                      ELSE registry[v].tree[n]
            /\ registry[v].tree[n] \in 0..Latest
  <2> HIDE DEF place
  <2>1. IsPut(Manifest, place)
    BY <1>2, PublishesFacts
  <2> QED BY <2>1 DEF IsPut
<1>4. /\ Grows
      /\ \A x \in begun' : x <= Latest'
      /\ \A v \in Versions, n \in Names : Genuine(v, n, registry[v].tree[n])'
      /\ \A v \in Versions : \A n \in registry'[v].torn : registry'[v].tree[n] # 0
  <2> HIDE DEF place
  <2> QED BY <1>2, PublishesKeeps
<1>5. place.torn = registry[w].torn \cup {Manifest}
  BY DEF Torn
<1> HIDE DEF place
<1>6. /\ publish'.at = "copy" /\ publish'.edition = Latest
      /\ publish'.todo = {} /\ publish'.open = {Manifest}
      /\ publish' \in [at : {"idle", "copy"}, edition : 0..MaxEditions,
                       todo : SUBSET Files, open : SUBSET Names]
  BY <1>1, <1>3 DEF TypeOK, Publishing
<1>7. TypeOK'
  BY <1>3, <1>6 DEF TypeOK, user
<1>8. ASSUME NEW n \in editions[Latest].files
      PROVE  /\ registry'[w].tree[n] = Latest /\ n \notin registry'[w].torn
  <2>1. n \in Names /\ n # Manifest
    BY <1>3, EditionFacts
  <2> QED BY <1>1, <1>3, <1>5, <2>1 DEF Publishing
<1>9. Publishing'
  <2>1. editions' = editions /\ Latest' = Latest /\ begun' = begun /\ again' = again
    BY DEF Latest
  <2>2. publish'.open \subseteq Listing(Latest) \ publish'.todo
    BY <1>2, <1>6 DEF Puts
  <2>3. \A n \in publish'.open : publish'.open = {n}
    BY <1>6
  <2> QED BY <1>3, <1>6, <1>8, <2>1, <2>2, <2>3 DEF Publishing, Listing
<1>10. ManifestLast'
  <2> SUFFICES ASSUME NEW v \in Versions, registry'[v].tree[Manifest] # 0,
                      NEW n \in editions[registry'[v].tree[Manifest]].files
               PROVE  /\ registry'[v].tree[n] >= registry'[v].tree[Manifest]
                      /\ n \in registry'[v].torn =>
                            \/ registry'[v].tree[n] > registry'[v].tree[Manifest]
                            \/ registry'[v].tree[Manifest] \in again
    BY DEF ManifestLast
  <2>1. CASE v = w
    <3>1. registry'[v].tree[Manifest] = Latest
      BY <1>3, <2>1
    <3>2. registry'[v].tree[n] = Latest /\ n \notin registry'[v].torn
      BY <1>8, <2>1, <3>1
    <3>3. Latest \in Nat
      BY <1>3
    <3> QED BY <3>1, <3>2, <3>3
  <2>2. CASE v # w
    BY <1>3, <2>2 DEF AuthorInv, ManifestLast
  <2> QED BY <2>1, <2>2
<1>11. AuthorInv'
  BY <1>4, <1>6, <1>9, <1>10 DEF AuthorInv
<1>12. UserInv'
  BY <1>4, <1>7, UserKept
<1> QED BY <1>7, <1>11, <1>12

\* Ending a file changes nothing but that it is whole; after the manifest,
\* nothing is promised of a publication.
LEMMA WrittenHolds == ASSUME IInv, NEW name \in Names, PublishWritten(name) PROVE IInv'
<1> USE NameFacts DEF PublishWritten, IInv
<1> DEFINE w == editions[Latest].version
           place == With(registry[w], name, Latest)
<1>1. /\ publish.at = "copy" /\ Publishing /\ publish.open = {name}
      /\ name \in Listing(Latest) /\ publish.edition = Latest
  <2>1. publish.at = "copy"
    BY DEF AuthorInv, TypeOK
  <2> QED BY <2>1 DEF AuthorInv, Publishing
<1>2. Puts(name, place) /\ UNCHANGED <<editions, begun, again>>
  BY <1>1 DEF Puts
<1>3. /\ w \in Versions /\ Latest \in begun /\ Latest \in 1..Latest
      /\ registry' \in [Versions -> Places] /\ registry'[w] = place
      /\ \A v \in Versions : v # w => registry'[v] = registry[v]
      /\ \A v \in Versions, n \in Names :
            /\ registry'[v].tree[n] = IF v = w /\ n = name THEN Latest
                                      ELSE registry[v].tree[n]
            /\ registry[v].tree[n] \in 0..Latest
  <2> HIDE DEF place
  <2>1. IsPut(name, place)
    BY <1>2, PublishesFacts
  <2> QED BY <2>1 DEF IsPut
<1>4. /\ Grows
      /\ \A x \in begun' : x <= Latest'
      /\ \A v \in Versions, n \in Names : Genuine(v, n, registry[v].tree[n])'
      /\ \A v \in Versions : \A n \in registry'[v].torn : registry'[v].tree[n] # 0
  <2> HIDE DEF place
  <2> QED BY <1>2, PublishesKeeps
<1>5. place.torn = registry[w].torn \ {name}
  BY DEF With
<1> HIDE DEF place
<1>6. /\ name = Manifest => publish' = NoPublish
      /\ name # Manifest =>
            /\ publish'.at = "copy" /\ publish'.edition = Latest
            /\ publish'.todo = publish.todo /\ publish'.open = {}
      /\ publish' \in [at : {"idle", "copy"}, edition : 0..MaxEditions,
                       todo : SUBSET Files, open : SUBSET Names]
  BY <1>1 DEF TypeOK, Publishing, NoPublish
<1>7. TypeOK'
  BY <1>3, <1>6 DEF TypeOK, user
<1>8. ASSUME NEW n \in editions[Latest].files \ publish.todo
      PROVE  /\ registry'[w].tree[n] = Latest /\ n \notin registry'[w].torn
  <2>1. n \in Names
    BY <1>3, EditionFacts
  <2> QED BY <1>1, <1>3, <1>5, <2>1 DEF Publishing
<1>9. ASSUME name # Manifest PROVE Publishing'
  <2>1. editions' = editions /\ Latest' = Latest /\ begun' = begun /\ again' = again
    BY DEF Latest
  <2>2. registry'[w].tree[Manifest] = Latest => Latest \in again
    BY <1>1, <1>3, <1>9 DEF Publishing
  <2> QED BY <1>1, <1>3, <1>6, <1>8, <1>9, <2>1, <2>2 DEF Publishing, Listing
<1>10. ManifestLast'
  <2> SUFFICES ASSUME NEW v \in Versions, registry'[v].tree[Manifest] # 0,
                      NEW n \in editions[registry'[v].tree[Manifest]].files
               PROVE  /\ registry'[v].tree[n] >= registry'[v].tree[Manifest]
                      /\ n \in registry'[v].torn =>
                            \/ registry'[v].tree[n] > registry'[v].tree[Manifest]
                            \/ registry'[v].tree[Manifest] \in again
    BY <1>2 DEF ManifestLast
  <2>1. CASE v = w /\ name = Manifest
    <3>1. registry'[v].tree[Manifest] = Latest /\ publish.todo = {}
      BY <1>1, <1>3, <2>1 DEF Publishing
    <3>2. registry'[v].tree[n] = Latest /\ n \notin registry'[v].torn
      BY <1>8, <2>1, <3>1
    <3>3. Latest \in Nat
      BY <1>3
    <3> QED BY <3>1, <3>2, <3>3
  <2>2. CASE v = w /\ name # Manifest
    <3>1. registry'[v].tree[Manifest] = registry[v].tree[Manifest]
      BY <1>3, <2>2
    <3>2. n \in Names
      BY <1>3, EditionFacts
    <3>3. registry[v].tree[n] = registry'[v].tree[n]
      <4>1. name \in editions[Latest].files \ publish.todo
        BY <1>1, <2>2 DEF Publishing, Listing
      <4>2. registry[w].tree[name] = Latest
        BY <1>1, <4>1 DEF Publishing
      <4> QED BY <1>3, <2>2, <3>2, <4>2
    <3>4. n \in registry'[v].torn => n \in registry[v].torn
      BY <1>3, <1>5, <2>2
    <3> QED BY <3>1, <3>3, <3>4 DEF AuthorInv, ManifestLast
  <2>3. CASE v # w
    BY <1>3, <2>3 DEF AuthorInv, ManifestLast
  <2> QED BY <2>1, <2>2, <2>3
<1>11. AuthorInv'
  <2>1. CASE name = Manifest
    <3>1. publish'.at = "idle" /\ publish'.open = {}
      BY <1>6, <2>1 DEF NoPublish
    <3> QED BY <1>4, <1>10, <3>1 DEF AuthorInv
  <2>2. CASE name # Manifest
    BY <1>4, <1>6, <1>9, <1>10, <2>2 DEF AuthorInv
  <2> QED BY <2>1, <2>2
<1>12. UserInv'
  BY <1>4, <1>7, UserKept
<1> QED BY <1>7, <1>11, <1>12

\* A publication that is killed leaves what it copied, a file of it torn.
LEMMA KilledHolds == ASSUME IInv, PublishKilled PROVE IInv'
<1> USE NameFacts DEF PublishKilled, IInv
<1>1. TypeOK'
  BY DEF TypeOK, user, NoPublish
<1>2. Grows
  BY DEF Grows, TypeOK, Places, Trees
<1>3. AuthorInv'
  BY DEF AuthorInv, NoPublish, ManifestLast, Genuine, Listing, Latest
<1>4. UserInv'
  BY <1>1, <1>2, UserKept
<1> QED BY <1>1, <1>3, <1>4

-----------------------------------------------------------------------------
(* The user's steps.                                                        *)

\* They leave the author's side alone.
LEMMA AuthorKept == ASSUME AuthorInv, UNCHANGED author PROVE AuthorInv'
BY DEF AuthorInv, author, Publishing, Genuine, ManifestLast, Listing, Latest

\* A command that is over, or not begun, promises nothing.
LEMMA NoInstallFacts ==
    /\ NoInstall.at = "idle" /\ NoInstall.how = "none" /\ NoInstall.version = Nowhere
    /\ NoInstall.todo = {} /\ NoInstall.open = {} /\ NoInstall.seen = Absent
    /\ NoInstall \in Installs
BY PlaceFacts DEF NoInstall, Installs

\* A command that begins.
LEMMA StartsHolds == ASSUME IInv, User PROVE IInv'
<1> USE NameFacts, PlaceFacts, NoInstallFacts DEF IInv
<1>1. ASSUME NEW how \in {"git", "path", "registry"}, NEW at \in {"unstage", "remove"},
             NEW v \in Versions \cup {Nowhere}, Starts(how, at, v),
             at = "remove" <=> how # "git", how = "registry" => v \in Published
      PROVE  IInv'
  <2>1. /\ install' = [NoInstall EXCEPT !.how = how, !.at = at, !.version = v]
        /\ UNCHANGED <<author, staging, target, faults>>
    BY <1>1 DEF Starts
  <2>2. /\ install'.at = at /\ install'.how = how /\ install'.version = v
        /\ install'.open = {} /\ install' \in Installs
    BY <2>1 DEF Installs
  <2>3. TypeOK'
    BY <2>1, <2>2 DEF TypeOK, author
  <2>4. AuthorInv'
    BY <2>1, AuthorKept
  <2>5. Published' = Published
    BY <2>1 DEF Published, author
  <2>6. UserInv'
    BY <1>1, <2>2, <2>5 DEF UserInv
  <2> QED BY <2>3, <2>4, <2>6
<1>2. CASE InstallGit
  BY <1>1, <1>2 DEF InstallGit
<1>3. CASE InstallPath
  BY <1>1, <1>3 DEF InstallPath
<1>4. ASSUME NEW v \in Versions, InstallRegistry(v) PROVE IInv'
  BY <1>1, <1>4 DEF InstallRegistry
<1>5. CASE InstallLast
  BY <1>4, <1>5 DEF InstallLast, Published
<1> QED BY <1>2, <1>3, <1>4, <1>5 DEF User

\* A command that is killed or whose connection is lost.
LEMMA EndsHolds == ASSUME IInv, InstallKilled \/ CloneFails PROVE IInv'
<1> USE NameFacts, PlaceFacts, NoInstallFacts DEF IInv
<1>1. install' = NoInstall /\ UNCHANGED author
  BY DEF InstallKilled, CloneFails
<1>2. staging' \in Places
  <2>1. staging \in Places
    BY DEF TypeOK
  <2>2. staging' \in {Absent, staging}
    BY DEF InstallKilled, CloneFails
  <2> QED BY <2>1, <2>2
<1>3. target' \in Places /\ target'.tree[Git] = 0
  <2>1. target \in Places /\ target.tree[Git] = 0 /\ install.open \subseteq Names
    BY DEF TypeOK, Installs
  <2>2. target' \in {target, [target EXCEPT !.torn = @ \cup install.open]}
    BY DEF InstallKilled, CloneFails
  <2> QED BY <2>1, <2>2 DEF Places
<1>4. faults' \in 0..MaxFaults
  <2>1. faults \in 0..MaxFaults
    BY DEF TypeOK
  <2>2. faults > 0 /\ faults' = faults - 1
    BY DEF InstallKilled, CloneFails
  <2> QED BY <2>1, <2>2
<1>5. TypeOK'
  BY <1>1, <1>2, <1>3, <1>4 DEF TypeOK, author
<1>6. AuthorInv'
  BY <1>1, AuthorKept
<1>7. UserInv'
  BY <1>1 DEF UserInv
<1> QED BY <1>5, <1>6, <1>7

\* Staging, up to the clean clone that stands beside the target.
LEMMA StagesHolds ==
    ASSUME IInv, Unstage \/ Clone \/ CloneEnds \/ CleanGitMeta PROVE IInv'
<1> USE NameFacts, PlaceFacts DEF IInv
<1>1. UNCHANGED <<author, target, faults>>
  BY DEF Unstage, Clone, CloneEnds, CleanGitMeta
<1>2. AuthorInv'
  BY <1>1, AuthorKept
<1>3. CASE Unstage
  <2>1. staging' \in Places /\ install' = install
    <3>1. staging' \in {Absent, Dir(Bare)} /\ install' = install
      BY <1>3 DEF Unstage
    <3>2. Dir(Bare) \in Places
      OBVIOUS
    <3> QED BY <3>1, <3>2
  <2>2. TypeOK'
    BY <1>1, <2>1 DEF TypeOK, author
  <2>3. UserInv'
    BY <1>3, <2>1 DEF Unstage, UserInv
  <2> QED BY <1>2, <2>2, <2>3
<1>4. CASE Clone
  <2> DEFINE clone == Dir(Tree(Latest))
  <2>1. Latest \in 1..Latest
    BY DEF TypeOK, Latest
  <2>2. clone \in Places /\ clone = Dir(clone.tree) /\ clone.tree[Git] = 0
    BY <2>1, EditionFacts
  <2>3. install' = [install EXCEPT !.at = "clone", !.seen = clone]
    BY <1>4 DEF Clone
  <2> HIDE DEF clone
  <2>4. /\ install'.at = "clone" /\ install'.seen = clone /\ install'.how = install.how
        /\ install'.open = install.open /\ install' \in Installs
    BY <2>2, <2>3 DEF TypeOK, Installs
  <2>5. staging' \in Places
    <3>1. 1 \in 0..MaxEditions /\ staging' = With(Absent, Git, 1)
      BY <1>4 DEF Clone
    <3> QED BY <3>1, WriteFacts
  <2>6. TypeOK'
    BY <1>1, <2>4, <2>5 DEF TypeOK, author
  <2>7. install.how = "git"
    BY <1>4 DEF UserInv, Clone
  <2>8. UserInv'
    BY <1>4, <2>2, <2>4, <2>7 DEF UserInv, Clone
  <2> QED BY <1>2, <2>6, <2>8
<1>5. CASE CloneEnds
  <2>1. install.seen \in Places
    BY DEF TypeOK, Installs
  <2>2. install' = [install EXCEPT !.at = "clean"]
    BY <1>5 DEF CloneEnds
  <2>3. /\ install'.at = "clean" /\ install'.seen = install.seen /\ install'.how = install.how
        /\ install'.open = install.open /\ install' \in Installs
    BY <2>2 DEF TypeOK, Installs
  <2>4. staging' \in Places /\ staging' = With(install.seen, Git, 1)
    <3> DEFINE place == install.seen
    <3>1. place \in Places /\ staging' = With(place, Git, 1)
      BY <1>5, <2>1 DEF CloneEnds
    <3> HIDE DEF place
    <3>2. With(place, Git, 1) \in Places
      BY <3>1 DEF With, Places, Trees
    <3> QED BY <3>1, <3>2 DEF place
  <2>5. TypeOK'
    BY <1>1, <2>3, <2>4 DEF TypeOK, author
  <2>6. UserInv'
    BY <1>5, <2>3, <2>4 DEF UserInv, CloneEnds
  <2> QED BY <1>2, <2>5, <2>6
<1>6. CASE CleanGitMeta
  <2> DEFINE tree == install.seen.tree
  <2>1. /\ install.seen \in Places /\ tree \in Trees /\ tree[Git] = 0
        /\ install.seen = Dir(tree)
    BY <1>6 DEF TypeOK, Installs, UserInv, CleanGitMeta
  <2>2. install' = [install EXCEPT !.at = "remove"]
    BY <1>6 DEF CleanGitMeta
  <2>3. /\ install'.at = "remove" /\ install'.seen = install.seen
        /\ install'.how = install.how /\ install'.version = install.version
        /\ install'.open = install.open /\ install' \in Installs
    BY <2>2 DEF TypeOK, Installs
  <2>4. staging' = install.seen
    <3>1. staging' = With(With(install.seen, Git, 1), Git, 0)
      BY <1>6 DEF CleanGitMeta, UserInv
    <3>2. staging' = With(With(Dir(tree), Git, 1), Git, 0)
      BY <2>1, <3>1
    <3> HIDE DEF tree
    <3>3. staging' = Dir(tree)
      BY <2>1, <3>2 DEF With, Dir, Trees
    <3> QED BY <2>1, <3>3
  <2>5. TypeOK'
    BY <1>1, <2>1, <2>3, <2>4 DEF TypeOK, author
  <2>6. install.how = "git"
    BY <1>6 DEF UserInv, CleanGitMeta
  <2>7. UserInv'
    BY <1>6, <2>1, <2>3, <2>4, <2>6 DEF UserInv, CleanGitMeta
  <2> QED BY <1>2, <2>5, <2>7
<1> QED BY <1>3, <1>4, <1>5, <1>6

\* Removing the old package and putting the new one in its place.
LEMMA PlacesHolds ==
    ASSUME IInv, RemoveTarget \/ Rename \/ SymLink \/ Copied PROVE IInv'
<1> USE NameFacts, PlaceFacts, NoInstallFacts DEF IInv
<1>1. UNCHANGED <<author, faults>>
  BY DEF RemoveTarget, Rename, SymLink, Copied, Completes
<1>2. AuthorInv'
  BY <1>1, AuthorKept
<1>3. CASE RemoveTarget
  <2>1. install.at = "remove" /\ UNCHANGED <<install, staging>>
    BY <1>3 DEF RemoveTarget
  <2>2. target' \in Places /\ target'.tree[Git] = 0
    <3>1. CASE Held(target.tree) = {}
      <4>1. target' = Absent
        BY <1>3, <3>1 DEF RemoveTarget
      <4>2. Absent.tree[Git] = 0
        BY NameFacts DEF Absent, Bare
      <4> QED BY <4>1, <4>2, PlaceFacts
    <3>2. CASE Held(target.tree) # {}
      <4>1. PICK name \in Held(target.tree) : target' = With(target, name, 0)
        BY <1>3, <3>2 DEF RemoveTarget
      <4>2. name \in Names /\ target \in Places /\ target.tree[Git] = 0 /\ 0 \in 0..MaxEditions
        BY <4>1 DEF Held, TypeOK
      <4> QED BY <4>1, <4>2 DEF With, Places, Trees
    <3> QED BY <3>1, <3>2
  <2>3. TypeOK'
    BY <1>1, <2>1, <2>2 DEF TypeOK, author
  <2>4. Published' = Published
    BY <1>1 DEF Published, author
  <2>5. UserInv'
    BY <2>1, <2>4 DEF UserInv
  <2> QED BY <1>2, <2>3, <2>5
<1>4. CASE Rename \/ SymLink \/ Copied
  <2>1. install' = NoInstall
    BY <1>4 DEF Rename, SymLink, Copied, Completes
  <2>2. target' \in Places /\ target'.tree[Git] = 0 /\ staging' \in Places
    <3>1. CASE Rename
      <4>1. staging = install.seen /\ install.seen.tree[Git] = 0
        BY <3>1 DEF Rename, Free, UserInv
      <4>2. target' = staging /\ staging' = Absent /\ staging \in Places
        BY <3>1 DEF Rename, TypeOK
      <4> QED BY <4>1, <4>2
    <3>2. CASE SymLink
      BY <3>2 DEF SymLink, Link, Bare, TypeOK
    <3>3. CASE Copied
      BY <3>3 DEF Copied, TypeOK
    <3> QED BY <1>4, <3>1, <3>2, <3>3
  <2>3. TypeOK'
    BY <1>1, <2>1, <2>2 DEF TypeOK, author
  <2>4. UserInv'
    BY <2>1 DEF UserInv
  <2> QED BY <1>2, <2>3, <2>4
<1> QED BY <1>3, <1>4

\* A copy begins with what the version holds: of every manifest, the files.
LEMMA CopyTreeHolds == ASSUME IInv, CopyTree PROVE IInv'
<1> USE NameFacts, PlaceFacts DEF IInv
<1> DEFINE v == install.version
           source == registry[v]
           tree == source.tree
<1>1. /\ UNCHANGED <<author, staging, faults>>
      /\ target' = Dir(Bare)
      /\ install' = [install EXCEPT !.at = "copy", !.seen = source,
                                    !.todo = Held(tree), !.intact = TRUE]
  BY DEF CopyTree, Lists
<1>2. v \in Versions /\ source.kind = "dir"
  BY DEF CopyTree, Free, UserInv, Published
<1>3. source \in Places /\ tree \in Trees
  BY <1>2 DEF TypeOK
<1>4. /\ install'.at = "copy" /\ install'.seen = source /\ install'.todo = Held(tree)
      /\ install'.version = v /\ install'.open = install.open
      /\ install' \in Installs
  BY <1>1, <1>3 DEF TypeOK, Held, Installs
<1>5. /\ target' \in Places /\ target'.kind = "dir" /\ target'.torn = {}
      /\ \A name \in Names : target'.tree[name] = 0
  BY <1>1
<1>6. TypeOK'
  BY <1>1, <1>4, <1>5 DEF TypeOK, author
<1>7. AuthorInv'
  BY <1>1, AuthorKept
<1>8. Copying'
  <2>1. /\ registry' = registry /\ editions' = editions /\ begun' = begun
        /\ install'.version = v /\ registry'[v].tree = tree
    BY <1>1, <1>4 DEF author
  <2>2. ASSUME NEW name \in Names PROVE CopyOf(name, registry[v])'
    <3>1. Genuine(v, name, tree[name])
      BY <1>2 DEF AuthorInv
    <3>2. tree[name] \in Nat
      BY <1>3, TreeFacts
    <3>3. Genuine(v, name, install.seen.tree[name])'
      BY <1>4, <2>1, <3>1 DEF Genuine, Listing
    <3>4. target'.tree[name] = 0 /\ name \notin target'.torn
      BY <1>5
    <3>5. Genuine(v, name, target.tree[name])'
      BY <3>4 DEF Genuine
    <3>6. name \in install'.todo <=> install'.seen.tree[name] # 0
      BY <1>4 DEF Held
    <3>7. install'.seen.tree[name] <= registry'[v].tree[name]
      BY <1>4, <2>1, <3>2
    <3>8. name \in install'.seen.torn => install'.seen.tree[name] # 0
      BY <1>2, <1>4 DEF AuthorInv
    <3>9. install'.open = {}
      BY <1>4 DEF CopyTree, Free, UserInv
    <3> QED BY <2>1, <3>3, <3>4, <3>5, <3>6, <3>7, <3>8, <3>9 DEF CopyOf
  <2>3. tree[Manifest] # 0 => \A name \in editions[tree[Manifest]].files : tree[name] # 0
    <3> SUFFICES ASSUME tree[Manifest] # 0, NEW name \in editions[tree[Manifest]].files
                 PROVE  tree[name] # 0
      OBVIOUS
    <3>1. tree[name] >= tree[Manifest]
      BY <1>2 DEF AuthorInv, ManifestLast
    <3>2. tree[Manifest] \in 1..Latest
      BY <1>2, ShelfFacts
    <3>3. name \in Names
      BY <3>2, EditionFacts
    <3>4. tree[name] \in Nat /\ tree[Manifest] \in Nat
      BY <1>3, <3>3, TreeFacts
    <3> HIDE DEF tree
    <3> QED BY <3>1, <3>4
  <2>4. install'.seen.tree[Manifest] # 0 =>
            \A name \in editions'[install'.seen.tree[Manifest]].files :
                install'.seen.tree[name] # 0 /\ name \notin target'.torn
    BY <1>4, <1>5, <2>1, <2>3
  <2>5. install'.open \cap install'.todo = {}
    BY <1>4 DEF CopyTree, Free, UserInv
  <2> QED BY <1>2, <1>4, <1>5, <2>1, <2>2, <2>4, <2>5 DEF Copying
<1>9. UserInv'
  BY <1>4, <1>8 DEF UserInv
<1> QED BY <1>6, <1>7, <1>9

\* In a version with a single edition that was not published over its manifest,
\* no file of the edition is torn once the manifest is there.
LEMMA QuietFacts ==
    ASSUME IInv, Copying, install.seen.tree[Manifest] # 0,
           Quiet(install.seen.tree[Manifest], install.version),
           NEW name \in editions[install.seen.tree[Manifest]].files
    PROVE  /\ name \in Names
           /\ name \notin registry[install.version].torn
           /\ registry[install.version].tree[name] = install.seen.tree[Manifest]
           /\ install.seen.tree[name] = install.seen.tree[Manifest]
           /\ target.tree[name] \in {0, install.seen.tree[Manifest]}
<1> DEFINE v == install.version
           e == install.seen.tree[Manifest]
           m == registry[v].tree[Manifest]
<1> USE NameFacts, PlaceFacts DEF IInv
<1>1. v \in Versions /\ registry[v] \in Places /\ install.seen \in Places /\ target \in Places
  BY DEF Copying, TypeOK, Installs
<1>2. \A x \in Nat, n \in Names : x # 0 /\ Genuine(v, n, x) => x = e
  BY DEF Genuine, Quiet, OnlyEdition
<1>3. m \in Nat /\ e \in Nat /\ e <= m /\ Genuine(v, Manifest, m)
  BY <1>1 DEF AuthorInv, Copying, CopyOf, Places, Trees
<1>4. m = e /\ e # 0
  BY <1>2, <1>3
<1>5. e \in 1..Latest /\ name \in Names
  <2>1. m \in 1..Latest
    BY <1>1, <1>4, ShelfFacts
  <2>2. e \in 1..Latest
    BY <1>4, <2>1
  <2> QED BY <2>2, EditionFacts
<1>6. /\ registry[v].tree[name] \in Nat /\ install.seen.tree[name] \in Nat
      /\ target.tree[name] \in Nat
  BY <1>1, <1>5 DEF Places, Trees
<1>7. /\ Genuine(v, name, registry[v].tree[name])
      /\ Genuine(v, name, install.seen.tree[name]) /\ Genuine(v, name, target.tree[name])
  BY <1>1, <1>5 DEF AuthorInv, Copying, CopyOf
<1>8. /\ registry[v].tree[name] >= m
      /\ name \in registry[v].torn => registry[v].tree[name] > m \/ m \in again
  BY <1>1, <1>4 DEF AuthorInv, ManifestLast
<1>9. install.seen.tree[name] # 0
  BY DEF Copying
<1>10. registry[v].tree[name] = e /\ install.seen.tree[name] = e
  BY <1>2, <1>3, <1>4, <1>5, <1>6, <1>7, <1>8, <1>9
<1>11. target.tree[name] \in {0, e}
  BY <1>2, <1>5, <1>6, <1>7
<1>12. name \notin registry[v].torn
  BY <1>3, <1>4, <1>8, <1>10 DEF Quiet
<1> QED BY <1>5, <1>10, <1>11, <1>12

\* Reading a name gives the one listed or a later one, and a torn file only if
\* it was torn or changed.
LEMMA ReadsFacts ==
    ASSUME IInv, install.at = "copy", NEW f \in install.todo \cup install.open,
           UNCHANGED <<author, staging, faults>>,
           target' \in Places, target'.kind = "dir", target'.torn \subseteq target.torn \cup {f},
           \A name \in Names \ {f} : target'.tree[name] = target.tree[name]
                                     /\ (name \in target'.torn <=> name \in target.torn),
           target'.tree[f] \in {target.tree[f], registry[install.version].tree[f]},
           f \in install.todo => target'.tree[f] = registry[install.version].tree[f],
           f \in target'.torn => \/ f \in target.torn
                                 \/ f \in registry[install.version].torn
                                 \/ registry[install.version].tree[f] # target.tree[f],
           f \in target'.torn /\ f \in install.todo => f \in registry[install.version].torn,
           install' \in Installs,
           install'.at = "copy", install'.version = install.version,
           install'.seen = install.seen, install'.todo = install.todo \ {f},
           install'.open \subseteq {f},
           install'.intact =>
                /\ install.intact
                /\ target'.tree[f] = install.seen.tree[f]
                /\ f \in target'.torn <=> f \in install.seen.torn
    PROVE  IInv'
<1> USE NameFacts, PlaceFacts DEF IInv
<1> DEFINE v == install.version
           tree == registry[v].tree
           e == install.seen.tree[Manifest]
<1>1. Copying /\ v \in Versions
  BY DEF UserInv, Copying
<1>2. /\ registry[v] \in Places /\ tree \in Trees /\ target \in Places
      /\ install.seen \in Places /\ install.todo \subseteq Names /\ install.open \subseteq Names
      /\ f \in Names
  BY <1>1 DEF TypeOK, Installs
<1>3. /\ registry' = registry /\ editions' = editions /\ begun' = begun /\ again' = again
      /\ staging' = staging /\ faults' = faults /\ publish' = publish
  BY DEF author
<1>4. \A name \in Names : /\ install.seen.tree[name] \in Nat /\ target.tree[name] \in Nat
                          /\ tree[name] \in Nat
  BY <1>2 DEF Places, Trees
<1>5. /\ install.seen.tree[f] # 0 /\ install.seen.tree[f] <= tree[f]
      /\ f \notin install.todo =>
            install.seen.tree[f] <= target.tree[f] /\ target.tree[f] <= tree[f]
  BY <1>1, <1>2 DEF Copying, CopyOf
<1>6. TypeOK'
  <2>1. f # Git
    <3>1. tree[Git] # 0 => Git \in Listing(tree[Git]) /\ tree[Git] \in 1..Latest
      BY <1>1, ShelfFacts
    <3>2. tree[Git] = 0
      BY <3>1, EditionFacts
    <3> QED BY <1>4, <1>5, <3>2
  <2>2. target'.tree[Git] = 0
    BY <2>1 DEF TypeOK
  <2> QED BY <1>3, <2>2 DEF TypeOK
<1>7. AuthorInv'
  BY AuthorKept
<1>8. ASSUME NEW name \in Names PROVE CopyOf(name, registry[v])'
  <2>1. CopyOf(name, registry[v]) /\ Genuine(v, name, tree[name])
    BY <1>1 DEF Copying, AuthorInv
  <2>2. CASE name # f
    <3>1. /\ target'.tree[name] = target.tree[name]
          /\ name \in target'.torn <=> name \in target.torn
          /\ name \in install'.todo <=> name \in install.todo
          /\ name \notin install'.open
          /\ install'.intact => install.intact
      BY <2>2
    <3> QED BY <1>3, <2>1, <3>1 DEF CopyOf, Genuine, Listing
  <2>3. CASE name = f
    <3>1. /\ install.seen.tree[f] <= target'.tree[f] /\ target'.tree[f] <= tree[f]
          /\ f \notin install'.todo
      BY <1>4, <1>5, <1>2
    <3>2. Genuine(v, f, install.seen.tree[f])' /\ Genuine(v, f, target.tree[f])'
      BY <1>3, <2>1, <2>3 DEF CopyOf, Genuine, Listing
    <3> QED BY <1>3, <1>5, <2>3, <3>1, <3>2 DEF CopyOf
  <2> QED BY <2>2, <2>3
<1>9. ASSUME e # 0, NEW name \in editions[e].files
      PROVE  /\ install.seen.tree[name] # 0
             /\ Quiet(e, v) => name \notin target'.torn
  <2>1. install.seen.tree[name] # 0 /\ (Quiet(e, v) => name \notin target.torn)
    BY <1>1, <1>9 DEF Copying
  <2>2. CASE Quiet(e, v) /\ name = f
    <3>1. /\ name \notin registry[v].torn /\ tree[name] = e
          /\ target.tree[name] \in {0, e}
      BY <1>1, <1>9, <2>2, QuietFacts
    <3>2. f \notin install.todo => target.tree[f] = e
      BY <1>4, <1>5, <1>2, <2>2, <3>1
    <3> QED BY <2>1, <2>2, <3>1, <3>2
  <2>3. CASE Quiet(e, v) /\ name # f
    BY <2>1, <2>3
  <2> QED BY <2>1, <2>2, <2>3
<1>10. Copying'
  <2>1. Quiet(e, v)' <=> Quiet(e, v)
    BY <1>3 DEF Quiet, OnlyEdition
  <2>2. install'.open \cap install'.todo = {}
    OBVIOUS
  <2> QED BY <1>1, <1>3, <1>8, <1>9, <2>1, <2>2 DEF Copying
<1>11. UserInv'
  BY <1>10 DEF UserInv
<1> QED BY <1>6, <1>7, <1>11

\* A copied file is the one listed or a later one.
LEMMA CopyFileHolds == ASSUME IInv, NEW f \in Names, CopyFile(f) PROVE IInv'
<1> DEFINE v == install.version
           source == registry[v]
<1>1. /\ install.at = "copy" /\ f \in install.todo
      /\ UNCHANGED <<author, staging, faults>>
      /\ target' = AsNow(f)
      /\ install' = [install EXCEPT !.todo = @ \ {f}, !.open = {f},
                                    !.intact = @ /\ SameNow]
  BY DEF CopyFile
<1>2. /\ v \in Versions /\ source \in Places /\ target \in Places /\ install \in Installs
      /\ source.tree[f] \in 0..MaxEditions
  BY <1>1, PlaceFacts DEF IInv, UserInv, Copying, TypeOK
<1>3. /\ target' \in Places /\ target'.kind = "dir"
      /\ target'.tree[f] = source.tree[f]
      /\ f \in target'.torn <=> f \in source.torn
      /\ \A name \in Names \ {f} : /\ target'.tree[name] = target.tree[name]
                                   /\ name \in target'.torn <=> name \in target.torn
      /\ target'.torn \subseteq target.torn \cup {f}
  <2> HIDE DEF source
  <2>1. target' = IF f \in source.torn THEN Torn(target, f, source.tree[f])
                                       ELSE With(target, f, source.tree[f])
    BY <1>1 DEF AsNow, source
  <2>2. CASE f \in source.torn
    BY <1>2, <2>1, <2>2 DEF Torn, Places, Trees
  <2>3. CASE f \notin source.torn
    BY <1>2, <2>1, <2>3 DEF With, Places, Trees
  <2> QED BY <2>2, <2>3
<1>4. /\ install'.at = "copy" /\ install'.version = v /\ install'.seen = install.seen
      /\ install'.todo = install.todo \ {f} /\ install'.open = {f}
      /\ install'.intact = (install.intact /\ SameNow)
      /\ install' \in Installs
  BY <1>1, <1>2 DEF Installs
<1>5. install'.intact =>
        /\ install.intact
        /\ target'.tree[f] = install.seen.tree[f]
        /\ f \in target'.torn <=> f \in install.seen.torn
  BY <1>3, <1>4 DEF SameNow
<1> QED BY <1>1, <1>3, <1>4, <1>5, ReadsFacts

\* So is one whose reading ends.
LEMMA CopyEndsHolds == ASSUME IInv, NEW f \in Names, CopyEnds(f) PROVE IInv'
<1> DEFINE v == install.version
           source == registry[v]
<1>1. /\ install.at = "copy" /\ f \in install.open
      /\ UNCHANGED <<author, staging, faults>>
      /\ install' = [install EXCEPT !.open = {}, !.intact = @ /\ SameNow]
  BY DEF CopyEnds
<1>2. Copying /\ f \notin install.todo
  BY <1>1 DEF IInv, UserInv, Copying
<1>3. /\ v \in Versions /\ source \in Places /\ target \in Places /\ install \in Installs
      /\ source.tree[f] \in 0..MaxEditions /\ target.kind = "dir"
  BY <1>2, PlaceFacts DEF IInv, UserInv, Copying, TypeOK
<1>4. \/ target' = target
      \/ target' = Torn(target, f, source.tree[f])
            /\ (\/ f \in source.torn \cup target.torn
                \/ source.tree[f] # target.tree[f])
      \/ target' = With(target, f, source.tree[f]) /\ f \notin source.torn
  BY DEF CopyEnds, AsNow
<1>5. /\ target' \in Places /\ target'.kind = "dir"
      /\ target'.tree[f] \in {target.tree[f], source.tree[f]}
      /\ f \in target'.torn =>
            f \in target.torn \/ f \in source.torn \/ source.tree[f] # target.tree[f]
      /\ \A name \in Names \ {f} : /\ target'.tree[name] = target.tree[name]
                                   /\ name \in target'.torn <=> name \in target.torn
      /\ target'.torn \subseteq target.torn \cup {f}
  <2> HIDE DEF source
  <2>1. CASE target' = target
    BY <1>3, <2>1
  <2>2. CASE target' = Torn(target, f, source.tree[f])
                /\ (f \in source.torn \cup target.torn \/ source.tree[f] # target.tree[f])
    BY <1>3, <2>2 DEF Torn, Places, Trees
  <2>3. CASE target' = With(target, f, source.tree[f])
    BY <1>3, <2>3 DEF With, Places, Trees
  <2> QED BY <1>4, <2>1, <2>2, <2>3
<1>6. /\ install'.at = "copy" /\ install'.version = v /\ install'.seen = install.seen
      /\ install'.todo = install.todo \ {f} /\ install'.open = {}
      /\ install'.intact = (install.intact /\ SameNow)
      /\ install' \in Installs
  BY <1>1, <1>2, <1>3 DEF Installs
<1>7. install'.intact =>
        /\ install.intact
        /\ target'.tree[f] = install.seen.tree[f]
        /\ f \in target'.torn <=> f \in install.seen.torn
  <2> SUFFICES ASSUME install.intact, source = install.seen
               PROVE  /\ target'.tree[f] = install.seen.tree[f]
                      /\ f \in target'.torn <=> f \in install.seen.torn
    BY <1>6 DEF SameNow
  <2>1. target.tree[f] = source.tree[f] /\ (f \in target.torn <=> f \in source.torn)
    BY <1>1, <1>2 DEF Copying, CopyOf
  <2>2. target'.tree[f] = source.tree[f]
    BY <1>5, <2>1
  <2>3. f \in target'.torn <=> f \in source.torn
    <3> HIDE DEF source
    <3> QED BY <1>3, <1>4, <2>1 DEF With, Torn
  <2> QED BY <2>2, <2>3
<1> QED BY <1>1, <1>2, <1>5, <1>6, <1>7, ReadsFacts

-----------------------------------------------------------------------------
\* Every step keeps the invariant.
LEMMA StepHolds == ASSUME IInv, [Next]_vars PROVE IInv'
<1>1. CASE Author
  BY <1>1, EditHolds, StartHolds, FileHolds, ManifestHolds, WrittenHolds DEF Author
<1>2. CASE User
  BY <1>2, StartsHolds
<1>3. CASE Working
  BY <1>3, StagesHolds, PlacesHolds, CopyTreeHolds, CopyFileHolds, CopyEndsHolds DEF Working
<1>4. CASE Fault
  BY <1>4, KilledHolds, EndsHolds DEF Fault
<1>5. CASE UNCHANGED vars
  <2>1. UNCHANGED <<author, install, staging, target, faults>>
    BY <1>5 DEF vars, user
  <2>2. TypeOK'
    BY <2>1 DEF IInv, TypeOK, author
  <2>3. AuthorInv'
    BY <2>1, AuthorKept DEF IInv
  <2>4. Grows
    BY <2>1, NameFacts DEF Grows, IInv, TypeOK, author, Places, Trees
  <2>5. UserInv'
    BY <1>5, <2>2, <2>4, UserKept DEF vars
  <2> QED BY <2>2, <2>3, <2>5 DEF IInv
<1> QED BY <1>1, <1>2, <1>3, <1>4, <1>5 DEF Next

\* The invariant holds throughout.
THEOREM Bookkeeping == Spec => []IInv
BY InitHolds, StepHolds, PTL DEF Spec

-----------------------------------------------------------------------------
\* Projects, directories and commands stay in their types; in particular no
\* installed package carries .git.
THEOREM PackagesTypes == Spec => []TypeOK
<1>1. IInv => TypeOK
  BY DEF IInv
<1> QED BY Bookkeeping, <1>1, PTL

\* A manifest in the registry comes after the files of its edition, and what is
\* torn beside it is of a later edition or of one published over its manifest.
THEOREM ManifestComesLast == Spec => []ManifestLast
<1>1. IInv => ManifestLast
  BY DEF IInv, AuthorInv
<1> QED BY Bookkeeping, <1>1, PTL

\* A finished copy holds what was listed, each file as listed or later, and is
\* torn in nothing that was not listed.
LEMMA CopiedFacts ==
    ASSUME IInv, Copied
    PROVE  /\ target \in Places /\ target.kind = "dir"
           /\ install.seen \in Places /\ install.seen.kind = "dir"
           /\ install.version \in Versions
           /\ \A name \in Names :
                /\ CopyOf(name, registry[install.version])
                /\ install.seen.tree[name] \in Nat /\ target.tree[name] \in Nat
                /\ (install.seen.tree[name] = 0 <=> target.tree[name] = 0)
<1>1. Copying /\ install.todo = {}
  BY DEF IInv, UserInv, Copied
<1>2. target \in Places /\ install.seen \in Places
  BY DEF IInv, TypeOK, Installs
<1>3. \A name \in Names : install.seen.tree[name] \in Nat /\ target.tree[name] \in Nat
  BY <1>2, NameFacts DEF Places, Trees
<1>4. ASSUME NEW name \in Names
      PROVE  install.seen.tree[name] = 0 <=> target.tree[name] = 0
  <2>1. CopyOf(name, registry[install.version])
    BY <1>1 DEF Copying
  <2> QED BY <1>1, <1>3, <2>1 DEF CopyOf
<1> QED BY <1>1, <1>2, <1>3, <1>4 DEF Copying

\* Two places of a kind with the same files, torn ones too, are the same.
LEMMA SamePlace ==
    ASSUME NEW p \in Places, NEW q \in Places, p.kind = q.kind,
           \A name \in Names : p.tree[name] = q.tree[name] /\ (name \in p.torn <=> name \in q.torn)
    PROVE  p = q
<1>1. p.tree = q.tree
  BY DEF Places, Trees
<1>2. p.torn = q.torn
  BY DEF Places
<1> QED BY <1>1, <1>2 DEF Places

\* An installation that completes leaves what its source held.
THEOREM InstallsLeaveTheirSource == Spec => LeavesItsSource
<1>1. ASSUME IInv, Rename PROVE target' = install.seen
  BY <1>1 DEF IInv, UserInv, Rename, Free
<1>2. ASSUME IInv, Copied, install.intact PROVE target = install.seen
  <2>1. ASSUME NEW name \in Names
        PROVE  /\ target.tree[name] = install.seen.tree[name]
               /\ name \in target.torn <=> name \in install.seen.torn
    <3>1. /\ CopyOf(name, registry[install.version]) /\ install.todo = {}
          /\ install.seen.tree[name] = 0 <=> target.tree[name] = 0
      BY <1>2, CopiedFacts DEF Copied
    <3> QED BY <1>2, <3>1 DEF CopyOf
  <2> QED BY <1>2, <2>1, CopiedFacts, SamePlace
<1>3. IInv /\ [Next]_vars =>
        [/\ Rename => target' = install.seen
         /\ Copied /\ install.intact => target = install.seen]_vars
  BY <1>1, <1>2
<1> QED BY Bookkeeping, <1>3, PTL DEF Spec, LeavesItsSource

\* With a single edition under its version, published once, a copy with a whole
\* manifest is that edition, with no file torn: although a file is copied by
\* truncating and writing it, and either copy may be killed in between.
THEOREM CopiesWithManifestsAreWhole == Spec => ManifestMeansWhole
<1>1. ASSUME IInv, Copied, target.tree[Manifest] # 0, Manifest \notin target.torn,
             NEW e \in begun \ again, OnlyEdition(e, install.version)
      PROVE  target = Dir(Tree(e))
  <2> DEFINE v == install.version
  <2>1. e \in 1..Latest
    BY <1>1 DEF IInv, TypeOK, AuthorInv
  <2>2. Tree(e) \in Trees
    BY <1>1, <2>1, EditionFacts DEF IInv
  <2>3. install.seen.tree[Manifest] = e
    <3>1. install.seen.tree[Manifest] # 0 /\ Genuine(v, Manifest, install.seen.tree[Manifest])
      BY <1>1, CopiedFacts, NameFacts DEF CopyOf
    <3> QED BY <1>1, <3>1 DEF Genuine, OnlyEdition
  <2>4. Copying /\ Quiet(e, v) /\ e # 0
    BY <1>1, <2>1 DEF IInv, UserInv, Copied, Quiet
  <2>5. ASSUME NEW name \in Names
        PROVE  target.tree[name] = Tree(e)[name] /\ name \notin target.torn
    <3>1. CopyOf(name, registry[v]) /\ (install.seen.tree[name] = 0 <=> target.tree[name] = 0)
      BY <1>1, CopiedFacts
    <3>2. target.tree[name] # 0 => target.tree[name] = e /\ name \in Listing(e)
      BY <1>1, <3>1 DEF CopyOf, Genuine, OnlyEdition
    <3>3. name \in editions[e].files =>
                install.seen.tree[name] # 0 /\ name \notin target.torn
      BY <2>3, <2>4 DEF Copying
    <3>4. name \in Listing(e) => target.tree[name] # 0 /\ name \notin target.torn
      BY <1>1, <3>1, <3>3 DEF Listing
    <3>5. name \notin Listing(e) => name \notin target.torn
      BY <3>1, <3>2 DEF CopyOf
    <3> QED BY <3>2, <3>4, <3>5 DEF Tree
  <2>6. Dir(Tree(e)) \in Places
    BY <2>2, PlaceFacts
  <2>7. /\ Dir(Tree(e)).tree = Tree(e) /\ Dir(Tree(e)).torn = {} /\ Dir(Tree(e)).kind = "dir"
    BY PlaceFacts
  <2> QED BY <1>1, <2>5, <2>6, <2>7, CopiedFacts, SamePlace
<1>2. IInv /\ [Next]_vars =>
        [Copied /\ target.tree[Manifest] # 0 /\ Manifest \notin target.torn =>
            \A e \in begun \ again :
                OnlyEdition(e, install.version) => target = Dir(Tree(e))]_vars
  BY <1>1
<1> QED BY Bookkeeping, <1>2, PTL DEF Spec, ManifestMeansWhole

-----------------------------------------------------------------------------
(* Which version a constraint resolves to.                                  *)

LEMMA AboveIsTotal ==
    ASSUME NEW u \in Version, NEW v \in Version, NEW w \in Version
    PROVE  /\ Above(v, v)
           /\ Above(v, w) \/ Above(w, v)
           /\ Above(u, v) /\ Above(v, w) => Above(u, w)
BY DEF Version, Above, Leq

\* The version with the fewest above it has none above it.
LEMMA Highest ==
    ASSUME NEW S \in SUBSET Version, IsFiniteSet(S), S # {}
    PROVE  \E v \in S : \A w \in S : Above(v, w)
<1> DEFINE Over(v) == {w \in S : ~Above(v, w)}
           T == {Over(v) : v \in S}
<1>1. T \subseteq FiniteSubsetsOf(S) /\ T # {}
  <2>1. FiniteSubsetsOf(S) = SUBSET S
    BY FS_FiniteSubsetsOfFinite
  <2>2. T \subseteq SUBSET S /\ T # {}
    OBVIOUS
  <2> QED BY <2>1, <2>2
<1>2. PICK x \in T : \A y \in T : ~(<<y, x>> \in StrictSubsetOrdering(S))
  <2> HIDE DEF T
  <2> QED BY <1>1, FS_StrictSubsetOrderingWellFounded, WFMin
<1>3. PICK v \in S : x = Over(v)
  OBVIOUS
<1>4. ASSUME NEW w \in S PROVE Above(v, w)
  <2>1. SUFFICES ASSUME ~Above(v, w) PROVE FALSE
    OBVIOUS
  <2>2. v \in Version /\ w \in Version
    OBVIOUS
  <2>3. Above(w, v)
    BY <2>1, <2>2, AboveIsTotal
  <2>4. ASSUME NEW u \in S, ~Above(w, u) PROVE ~Above(v, u)
    <3>1. u \in Version
      OBVIOUS
    <3> QED BY <2>2, <2>3, <2>4, <3>1, AboveIsTotal
  <2>5. Over(w) \subseteq Over(v)
    BY <2>4
  <2>6. w \in Over(v) /\ w \notin Over(w)
    BY <2>1, <2>2, AboveIsTotal
  <2>7. <<Over(w), Over(v)>> \in StrictSubsetOrdering(S)
    BY <2>5, <2>6 DEF StrictSubsetOrdering
  <2> QED BY <1>2, <1>3, <2>7
<1> QED BY <1>4

\* resolve_version on any finite set of versions and any constraint.
LEMMA Resolves ==
    ASSUME NEW S \in SUBSET Version, IsFiniteSet(S), NEW c,
           resolve_version(S, c) # Nowhere
    PROVE  /\ resolve_version(S, c) \in S
           /\ semver_satisfies(resolve_version(S, c), c)
           /\ \A w \in S : semver_satisfies(w, c) => Above(resolve_version(S, c), w)
<1> DEFINE fit == {v \in S : semver_satisfies(v, c)}
<1>1. fit \in SUBSET Version /\ IsFiniteSet(fit)
  BY FS_Subset
<1>2. fit # {}
  BY DEF resolve_version
<1>3. \E v \in fit : \A w \in fit : Above(v, w)
  <2> HIDE DEF fit
  <2> QED BY <1>1, <1>2, Highest
<1>4. resolve_version(S, c) = CHOOSE v \in fit : \A w \in fit : Above(v, w)
  BY <1>2 DEF resolve_version
<1> DEFINE r == resolve_version(S, c)
<1>5. r \in fit /\ \A w \in fit : Above(r, w)
  <2> HIDE DEF fit
  <2> QED BY <1>3, <1>4
<1> QED BY <1>5

LEMMA ResolvesToNone ==
    ASSUME NEW S \in SUBSET Version, IsFiniteSet(S), NEW c,
           resolve_version(S, c) = Nowhere
    PROVE  \A v \in S : ~semver_satisfies(v, c)
<1> DEFINE fit == {v \in S : semver_satisfies(v, c)}
<1>1. SUFFICES ASSUME fit # {} PROVE FALSE
  OBVIOUS
<1>2. fit \in SUBSET Version /\ IsFiniteSet(fit)
  BY FS_Subset
<1>3. \E v \in fit : \A w \in fit : Above(v, w)
  <2> HIDE DEF fit
  <2> QED BY <1>1, <1>2, Highest
<1>4. resolve_version(S, c) \in fit
  BY <1>1, <1>3 DEF resolve_version
<1>5. Nowhere \notin Version
  BY DEF Nowhere, Version
<1> QED BY <1>2, <1>4, <1>5

LEMMA WithinIsSatisfied ==
    ASSUME NEW v \in Version, NEW w \in Version, NEW op \in Ops
    PROVE  Within(v, Constraint(op, w)) <=> semver_satisfies(v, Constraint(op, w))
<1>1. CASE op = "^"
  BY <1>1 DEF Within, semver_satisfies, Constraint, Version, Leq
<1>2. CASE op = "~"
  BY <1>2 DEF Within, semver_satisfies, Constraint, Version, Leq
<1>3. CASE op \notin {"^", "~"}
  BY <1>3 DEF Within, Constraint, Ops
<1> QED BY <1>1, <1>2, <1>3

LEMMA ShelvesAreFinite ==
    /\ Versions \in SUBSET Version /\ IsFiniteSet(Versions)
    /\ Shelf \in SUBSET Version /\ IsFiniteSet(Shelf)
<1>1. NameOrder \in Surjection(1..Len(NameOrder), Versions)
  BY VersionsAssumption DEF Versions, Range, Surjection
<1>2. IsFiniteSet(1..Len(NameOrder))
  BY VersionsAssumption, FS_Interval
<1>3. IsFiniteSet(Versions)
  BY <1>1, <1>2, FS_Surjection
<1> QED BY <1>3, VersionsAssumption DEF Versions, Range

\* ResolvesHighest: whatever is in the registry, a constraint resolves to a
\* version within it than which none within it is higher, or to none if there
\* is none.
THEOREM ConstraintsResolveHighest == Spec => []ResolvesHighest
<1>1. ResolvesHighest
  <2>1. SUFFICES ASSUME NEW shelf \in SUBSET Shelf, NEW op \in Ops,
                        NEW w \in Versions \cup Shelf
                 PROVE  LET versions == Published \cup shelf
                            c == Constraint(op, w)
                            r == resolve_version(versions, c)
                        IN  IF r = Nowhere THEN \A v \in versions : ~Within(v, c)
                            ELSE Within(r, c) /\ \A v \in versions : Within(v, c) => Leq(v, r)
    BY DEF ResolvesHighest
  <2> DEFINE versions == Published \cup shelf
             c == Constraint(op, w)
             r == resolve_version(versions, c)
  <2>2. IsFiniteSet(Published) /\ IsFiniteSet(shelf)
    BY ShelvesAreFinite, FS_Subset DEF Published
  <2>3. versions \in SUBSET Version /\ IsFiniteSet(versions) /\ w \in Version
    BY <2>2, ShelvesAreFinite, FS_Union DEF Published
  <2> HIDE DEF versions
  <2>4. \A v \in versions : Within(v, c) <=> semver_satisfies(v, c)
    BY <2>3, WithinIsSatisfied
  <2> HIDE DEF c
  <2>5. r = Nowhere => \A v \in versions : ~Within(v, c)
    BY <2>3, <2>4, ResolvesToNone
  <2>6. r # Nowhere => Within(r, c) /\ \A v \in versions : Within(v, c) => Leq(v, r)
    BY <2>3, <2>4, Resolves DEF Above
  <2> QED BY <2>5, <2>6 DEF versions, c
<1> QED BY <1>1, PTL
=============================================================================
