-------------------------- MODULE CatalogueProofs ---------------------------
(***************************************************************************)
(* A pattern is shown with its own picture (Catalogue), whatever the       *)
(* listings are: the invariant follows the file each row's path names      *)
(* through the updates, and through the statements that fail.              *)
(***************************************************************************)
EXTENDS Catalogue, SequenceTheorems, WellFoundedInduction, TLAPS

(* What a listing has of a pattern, and the values of the columns. *)
PosIn(list, n) == CHOOSE i \in DOMAIN list : list[i].name = n
Row(list) == [id : Nat, name : {list[k].name : k \in DOMAIN list},
              path : {Nothing} \cup (Nat \X {list[k].type : k \in DOMAIN list})]

FourOptions == {t \in Test : t.type = 1 => Len(t.options) = 4}

IsListing(list) ==
    /\ Len(list) \in Nat /\ DOMAIN list = 1 .. Len(list)
    /\ \A i, j \in DOMAIN list : list[i].name = list[j].name => i = j
    /\ \A i \in DOMAIN list : list[i].tests \in Seq(FourOptions)

(* The statements of the patterns from k + 1 to n have failed. *)
AllFail(list, k, n) == \A l \in k + 1 .. n : list[l].quoted # "nowhere"

(* The picture of the pattern k, or of one that has failed behind it. *)
PictureOf(list, k, picture) ==
    \/ picture = list[k].picture
    \/ \E j \in k + 1 .. Len(list) :
          /\ picture = list[j].picture
          /\ list[j].type = list[k].type
          /\ AllFail(list, k, j)

(* The file of a row is there and has a picture of its pattern. *)
HasPicture(list, pics, r) ==
    /\ r.path = <<r.id + 1, list[PosIn(list, r.name)].type>>
    /\ r.path \in DOMAIN pics
    /\ PictureOf(list, PosIn(list, r.name), pics[r.path])

(* How many patterns the INSERT was tried of, while an update runs. *)
Tried == IF step = "insert" THEN at - 1 ELSE at

CatTypeOK ==
    /\ step \in {"idle", "insert", "image", "tests"}
    /\ IsListing(offered)
    /\ step # "idle" => at \in DOMAIN offered
    /\ sequence \in Nat
    /\ Pattern \in Seq(Row(offered))
    /\ Nothing \notin DOMAIN images

(* Ids grow from 1 to that of the sequence. *)
IdsGrow ==
    /\ \A i \in DOMAIN Pattern : Pattern[i].id \in 1 .. sequence
    /\ \A i, j \in DOMAIN Pattern : i < j => Pattern[i].id < Pattern[j].id

(* The rows are, in the listing's order, those of patterns whose INSERT was
   tried and worked, and behind the last row's pattern all have failed. *)
RowsInserted ==
    /\ \A i \in DOMAIN Pattern :
           /\ offered[PosIn(offered, Pattern[i].name)].quoted = "nowhere"
           /\ step # "idle" => PosIn(offered, Pattern[i].name) <= Tried
    /\ \A i, j \in DOMAIN Pattern :
           i < j => PosIn(offered, Pattern[i].name) < PosIn(offered, Pattern[j].name)
    /\ step # "idle" /\ Pattern # <<>> =>
           AllFail(offered, PosIn(offered, Pattern[Len(Pattern)].name), Tried)

RowsHavePictures ==
    \A i \in DOMAIN Pattern :
        \/ /\ Pattern[i].path = Nothing
           /\ \/ cut
              \/ step = "image" /\ PosIn(offered, Pattern[i].name) = at
        \/ HasPicture(offered, images, Pattern[i])

CatInv == CatTypeOK /\ IdsGrow /\ RowsInserted /\ RowsHavePictures

-----------------------------------------------------------------------------
LEMMA PosIs ==
    ASSUME NEW list, IsListing(list), NEW k \in DOMAIN list
    PROVE  PosIn(list, list[k].name) = k
BY DEF PosIn, IsListing

LEMMA PosOf ==
    ASSUME NEW list, IsListing(list), NEW r \in Row(list)
    PROVE  /\ PosIn(list, r.name) \in DOMAIN list
           /\ PosIn(list, r.name) \in Nat
           /\ list[PosIn(list, r.name)].name = r.name
<1>1. PICK k \in DOMAIN list : r.name = list[k].name
  BY DEF Row
<1>2. PosIn(list, r.name) = k
  BY <1>1, PosIs
<1> QED
  BY <1>1, <1>2 DEF IsListing

LEMMA CatInitial == Init => CatInv
<1> SUFFICES ASSUME Init PROVE CatInv
  OBVIOUS
<1>1. IsListing(offered) /\ Pattern \in Seq(Row(offered)) /\ DOMAIN Pattern = {} /\ DOMAIN images = {}
  BY DEF Init, IsListing
<1> QED
  BY <1>1 DEF Init, CatInv, CatTypeOK, IdsGrow, RowsInserted, RowsHavePictures

LEMMA UpdateKeeps ==
    ASSUME CatInv, NEW list \in Listing, Update(list)
    PROVE  CatInv'
<1>1. IsListing(offered') /\ Pattern' \in Seq(Row(offered')) /\ DOMAIN Pattern' = {} /\ DOMAIN images' = {}
  BY ListingAssumption DEF Update, IsListing, FourOptions
<1>2. step' # "idle" => at' \in DOMAIN offered'
  BY <1>1, ListingAssumption DEF Update, IsListing
<1>3. CatTypeOK'
  BY <1>1, <1>2 DEF Update, CatInv, CatTypeOK, tables
<1> QED
  BY <1>1, <1>3 DEF CatInv, IdsGrow, RowsInserted, RowsHavePictures, Update

LEMMA InsertKeeps ==
    ASSUME CatInv, InsertPattern
    PROVE  CatInv'
<1>0. /\ step = "insert" /\ step' = "image" /\ at \in DOMAIN offered /\ at \in Nat
      /\ offered' = offered /\ at' = at /\ cut' = cut /\ images' = images
  BY DEF InsertPattern, CatInv, CatTypeOK, IsListing
<1>1. Tried = at - 1 /\ Tried' = at
  BY <1>0 DEF Tried
<1>2. CASE current.quoted # "nowhere"
  <2>1. Pattern' = Pattern /\ sequence' = sequence
    BY <1>2 DEF InsertPattern
  <2>2. \A i \in DOMAIN Pattern :
          PosIn(offered, Pattern[i].name) \in Nat /\ PosIn(offered, Pattern[i].name) < at
    BY <1>0, <1>1, PosOf DEF CatInv, CatTypeOK, RowsInserted
  <2>3. Pattern # <<>> => AllFail(offered, PosIn(offered, Pattern[Len(Pattern)].name), at)
    <3> SUFFICES ASSUME Pattern # <<>>
                 PROVE  AllFail(offered, PosIn(offered, Pattern[Len(Pattern)].name), at)
      OBVIOUS
    <3> DEFINE k == PosIn(offered, Pattern[Len(Pattern)].name)
    <3>1. AllFail(offered, k, at - 1) /\ k \in Nat
      BY <1>0, <1>1, <2>2 DEF CatInv, CatTypeOK, RowsInserted
    <3> HIDE DEF k
    <3>2. AllFail(offered, k, at)
      BY <1>0, <1>2, <3>1 DEF AllFail, current
    <3> QED
      BY <3>2 DEF k
  <2> QED
    BY <1>0, <1>1, <2>1, <2>2, <2>3 DEF CatInv, CatTypeOK, IdsGrow, RowsInserted, RowsHavePictures
<1>3. CASE current.quoted = "nowhere"
  <2> DEFINE r == [id |-> sequence + 1, name |-> current.name, path |-> Nothing]
  <2>1. Pattern' = Append(Pattern, r) /\ sequence' = sequence + 1
    BY <1>3 DEF InsertPattern
  <2>2. r \in Row(offered) /\ r.id = sequence + 1 /\ r.name = offered[at].name /\ r.path = Nothing
    BY <1>0 DEF Row, current, CatInv, CatTypeOK
  <2>3. PosIn(offered, r.name) = at /\ offered[at].quoted = "nowhere"
    BY <1>0, <1>3, <2>2, PosIs DEF CatInv, CatTypeOK, current
  <2> HIDE DEF r
  <2>4. /\ Pattern' \in Seq(Row(offered)) /\ Pattern \in Seq(Row(offered))
        /\ Len(Pattern) \in Nat /\ Len(Pattern') = Len(Pattern) + 1
        /\ DOMAIN Pattern = 1 .. Len(Pattern) /\ DOMAIN Pattern' = 1 .. Len(Pattern) + 1
        /\ Pattern'[Len(Pattern) + 1] = r /\ Pattern' # <<>>
        /\ \A i \in DOMAIN Pattern : Pattern'[i] = Pattern[i]
    BY <2>1, <2>2 DEF CatInv, CatTypeOK
  <2>5. \A i \in DOMAIN Pattern :
          PosIn(offered, Pattern[i].name) \in Nat /\ PosIn(offered, Pattern[i].name) < at
    BY <1>0, <1>1, PosOf DEF CatInv, CatTypeOK, RowsInserted
  <2>6. CatTypeOK'
    BY <1>0, <2>1, <2>4 DEF CatInv, CatTypeOK
  <2>7. IdsGrow'
    BY <2>1, <2>2, <2>4 DEF CatInv, IdsGrow, CatTypeOK
  <2>8. RowsInserted'
    <3>1. AllFail(offered, at, at)
      BY <1>0 DEF AllFail
    <3>2. \A i \in DOMAIN Pattern' :
            /\ offered[PosIn(offered, Pattern'[i].name)].quoted = "nowhere"
            /\ PosIn(offered, Pattern'[i].name) <= at
      BY <1>0, <2>3, <2>4, <2>5 DEF CatInv, RowsInserted
    <3>3. \A i, j \in DOMAIN Pattern' :
            i < j => PosIn(offered, Pattern'[i].name) < PosIn(offered, Pattern'[j].name)
      BY <1>0, <2>3, <2>4, <2>5 DEF CatInv, RowsInserted
    <3> QED
      BY <1>0, <1>1, <2>3, <2>4, <3>1, <3>2, <3>3 DEF RowsInserted
  <2>9. RowsHavePictures'
    <3> SUFFICES ASSUME NEW i \in DOMAIN Pattern'
                 PROVE  \/ /\ Pattern'[i].path = Nothing
                           /\ \/ cut
                              \/ PosIn(offered, Pattern'[i].name) = at
                        \/ HasPicture(offered, images, Pattern'[i])
      BY <1>0 DEF RowsHavePictures
    <3> QED
      BY <1>0, <2>2, <2>3, <2>4, <2>5 DEF CatInv, RowsHavePictures
  <2> QED
    BY <2>6, <2>7, <2>8, <2>9 DEF CatInv
<1> QED
  BY <1>2, <1>3

(* SaveImage writes no other row's path than that of the pattern it is at, and
   its file is the last row's. *)
LEMMA SaveKeeps ==
    ASSUME CatInv, SaveImage
    PROVE  CatInv'
<1>0. /\ step = "image" /\ step' = "tests" /\ at \in DOMAIN offered /\ at \in Nat
      /\ offered' = offered /\ at' = at /\ cut' = cut /\ sequence' = sequence
      /\ IsListing(offered) /\ Len(offered) \in Nat /\ at <= Len(offered)
  BY DEF SaveImage, CatInv, CatTypeOK, IsListing
<1>1. Tried = at /\ Tried' = at
  BY <1>0 DEF Tried
<1> DEFINE Pos(i) == PosIn(offered, Pattern[i].name)
<1>2. /\ Pattern \in Seq(Row(offered)) /\ Len(Pattern) \in Nat
      /\ DOMAIN Pattern = 1 .. Len(Pattern)
      /\ \A i \in DOMAIN Pattern : Pattern[i] \in Row(offered) /\ Pattern[i].id \in Nat
  <2>1. Pattern \in Seq(Row(offered))
    BY DEF CatInv, CatTypeOK
  <2>2. \A i \in DOMAIN Pattern : Pattern[i] \in Row(offered)
    BY <2>1
  <2>3. \A r \in Row(offered) : r.id \in Nat
    BY DEF Row
  <2> QED
    BY <2>1, <2>2, <2>3
<1>3. \A i \in DOMAIN Pattern :
        /\ Pos(i) \in DOMAIN offered /\ Pos(i) \in Nat /\ Pos(i) <= at
        /\ offered[Pos(i)].quoted = "nowhere" /\ offered[Pos(i)].name = Pattern[i].name
  BY <1>0, <1>1, <1>2, PosOf DEF CatInv, RowsInserted
<1>4. \A i \in DOMAIN Pattern : i # Len(Pattern) => Pos(i) < at
  <2> SUFFICES ASSUME NEW i \in DOMAIN Pattern, i # Len(Pattern) PROVE Pos(i) < at
    OBVIOUS
  <2>1. i < Len(Pattern) /\ Len(Pattern) \in DOMAIN Pattern
    BY <1>2
  <2>2. Pos(i) < Pos(Len(Pattern))
    BY <2>1 DEF CatInv, RowsInserted
  <2> QED
    BY <1>0, <1>3, <2>1, <2>2
<1>5. \A i \in DOMAIN Pattern : HasName(Pattern[i]) <=> Pos(i) = at
  BY <1>0, <1>3, PosIs DEF HasName, current
<1>6. \A i \in DOMAIN Pattern : i # Len(Pattern) => Pattern[i].id < Pattern[Len(Pattern)].id
  BY <1>2 DEF CatInv, IdsGrow
<1>7. DOMAIN Pattern # {} => FileId = Pattern[Len(Pattern)].id + 1
  BY <1>2 DEF FileId, Last
<1>8. FileId \in Nat /\ path \in Nat \X {offered[k].type : k \in DOMAIN offered} /\ path # Nothing
      /\ path = <<FileId, offered[at].type>>
  <2>1. FileId \in Nat
    BY <1>2 DEF FileId, Last
  <2> QED
    BY <1>0, <2>1 DEF path, current, Nothing
<1> HIDE DEF Pos
<1>9. /\ DOMAIN Pattern' = DOMAIN Pattern /\ Len(Pattern') = Len(Pattern)
      /\ \A i \in DOMAIN Pattern :
            /\ Pattern'[i] \in Row(offered)
            /\ Pattern'[i].id = Pattern[i].id /\ Pattern'[i].name = Pattern[i].name
            /\ Pattern'[i].path = IF Pos(i) = at THEN path ELSE Pattern[i].path
  <2>1. Pattern' = [i \in DOMAIN Pattern |->
                      IF current.quoted # "name" /\ HasName(Pattern[i])
                      THEN [Pattern[i] EXCEPT !.path = path] ELSE Pattern[i]]
    BY DEF SaveImage
  <2>2. DOMAIN Pattern' = DOMAIN Pattern /\ Len(Pattern') = Len(Pattern)
    BY <1>2, <2>1
  <2>3. ASSUME NEW i \in DOMAIN Pattern
        PROVE  /\ Pattern'[i] \in Row(offered)
               /\ Pattern'[i].id = Pattern[i].id /\ Pattern'[i].name = Pattern[i].name
               /\ Pattern'[i].path = IF Pos(i) = at THEN path ELSE Pattern[i].path
    <3>1. Pos(i) = at => current.quoted # "name"
      BY <1>3 DEF current
    <3>2. Pattern'[i] = IF Pos(i) = at THEN [Pattern[i] EXCEPT !.path = path] ELSE Pattern[i]
      BY <1>5, <2>1, <3>1
    <3>3. [Pattern[i] EXCEPT !.path = path] \in Row(offered)
      BY <1>2, <1>8 DEF Row
    <3>4. /\ [Pattern[i] EXCEPT !.path = path].id = Pattern[i].id
          /\ [Pattern[i] EXCEPT !.path = path].name = Pattern[i].name
          /\ [Pattern[i] EXCEPT !.path = path].path = path
      BY <1>2 DEF Row
    <3> QED
      BY <1>2, <3>2, <3>3, <3>4
  <2> QED
    BY <2>2, <2>3
<1>10. /\ DOMAIN images' = DOMAIN images \cup {path}
       /\ images'[path] = offered[at].picture
       /\ \A f \in DOMAIN images : f # path => images'[f] = images[f]
  BY DEF SaveImage, current
<1>11. CatTypeOK'
  <2>1. Pattern' \in Seq(Row(offered))
    <3>1. Pattern' = [i \in DOMAIN Pattern |-> Pattern'[i]]
      BY DEF SaveImage
    <3> QED
      BY <1>2, <1>9, <3>1
  <2> QED
    BY <1>0, <1>8, <1>10, <2>1 DEF CatInv, CatTypeOK
<1>12. IdsGrow'
  BY <1>0, <1>9 DEF CatInv, IdsGrow
<1>13. RowsInserted'
  <2>1. Pattern' # <<>> => Pattern # <<>>
    BY <1>2, <1>9
  <2>2. Pattern # <<>> => Len(Pattern) \in DOMAIN Pattern
    BY <1>2
  <2> QED
    BY <1>0, <1>1, <1>9, <2>1, <2>2 DEF CatInv, RowsInserted
<1>14. RowsHavePictures'
  <2> SUFFICES ASSUME NEW i \in DOMAIN Pattern
               PROVE  \/ Pattern'[i].path = Nothing /\ cut
                      \/ HasPicture(offered, images', Pattern'[i])
    BY <1>0, <1>9 DEF RowsHavePictures
  <2>1. CASE Pos(i) = at
    <3>1. i = Len(Pattern)
      BY <1>0, <1>4, <2>1
    <3>2. Pattern'[i].path = path /\ path = <<Pattern'[i].id + 1, offered[at].type>>
      BY <1>7, <1>8, <1>9, <2>1, <3>1
    <3>3. PictureOf(offered, at, images'[path])
      BY <1>10 DEF PictureOf
    <3>4. PosIn(offered, Pattern'[i].name) = at
      BY <1>9, <2>1 DEF Pos
    <3> QED
      BY <1>10, <3>2, <3>3, <3>4 DEF HasPicture
  <2>2. CASE Pos(i) # at
    <3>1. Pattern'[i].path = Pattern[i].path
      BY <1>9, <2>2
    <3>2. \/ Pattern[i].path = Nothing /\ cut
          \/ HasPicture(offered, images, Pattern[i])
      BY <2>2 DEF CatInv, RowsHavePictures, Pos
    <3>3. CASE Pattern[i].path = Nothing /\ cut
      BY <3>1, <3>3
    <3>4. CASE HasPicture(offered, images, Pattern[i])
      <4>1. /\ Pattern[i].path = <<Pattern[i].id + 1, offered[Pos(i)].type>>
            /\ Pattern[i].path \in DOMAIN images
            /\ PictureOf(offered, Pos(i), images[Pattern[i].path])
        BY <3>4 DEF HasPicture, Pos
      <4>2. CASE Pattern[i].path # path
        <5>1. /\ images'[Pattern[i].path] = images[Pattern[i].path]
              /\ Pattern[i].path \in DOMAIN images'
          BY <1>10, <4>1, <4>2
        <5> QED
          BY <1>9, <3>1, <4>1, <5>1 DEF HasPicture, Pos
      <4>3. CASE Pattern[i].path = path
        <5>1. FileId = Pattern[i].id + 1 /\ offered[at].type = offered[Pos(i)].type
          BY <1>8, <4>1, <4>3
        <5>2. i = Len(Pattern)
          BY <1>2, <1>6, <1>7, <5>1
        <5>3. AllFail(offered, Pos(i), at)
          BY <1>0, <1>1, <1>2, <5>2 DEF CatInv, RowsInserted, Pos
        <5>4. at \in Pos(i) + 1 .. Len(offered)
          BY <1>0, <1>3, <2>2
        <5>5. PictureOf(offered, Pos(i), images'[path])
          BY <1>10, <5>1, <5>3, <5>4 DEF PictureOf
        <5> QED
          BY <1>9, <1>10, <3>1, <4>1, <4>3, <5>5 DEF HasPicture, Pos
      <4> QED
        BY <4>2, <4>3
    <3> QED
      BY <3>2, <3>3, <3>4
  <2> QED
    BY <2>1, <2>2
<1> QED
  BY <1>11, <1>12, <1>13, <1>14 DEF CatInv

LEMMA TheRestKeeps ==
    ASSUME CatInv,
           \/ InsertTest \/ NextPattern \/ Die \/ UNCHANGED vars
           \/ \E i \in DOMAIN Pattern : More(Pattern[i]) \/ ToTest(Pattern[i].name)
    PROVE  CatInv'
<1>1. /\ offered' = offered /\ Pattern' = Pattern /\ images' = images /\ sequence' = sequence
      /\ cut => cut'
  <2>1. offered' = offered /\ Pattern' = Pattern /\ images' = images /\ sequence' = sequence
    BY DEF InsertTest, NextPattern, Die, More, ToTest, vars, tables
  <2>2. cut' = cut \/ cut' = (cut \/ step # "idle")
    BY DEF InsertTest, NextPattern, Die, More, ToTest, vars
  <2>3. cut => cut'
    BY <2>2, Zenon
  <2> QED
    BY <2>1, <2>3
<1>2. \/ step' = step /\ at' = at
      \/ step' = "idle" /\ (step # "idle" => cut') /\ at' = at
      \/ step' = "idle" /\ step = "tests"
      \/ step' = "insert" /\ step = "tests" /\ at' = at + 1 /\ at # Len(offered)
  BY DEF InsertTest, NextPattern, Die, More, ToTest, vars
<1>3. CatTypeOK'
  BY <1>1, <1>2 DEF CatInv, CatTypeOK, IsListing
<1>4. IdsGrow'
  BY <1>1 DEF CatInv, IdsGrow
<1>5. step' # "idle" => step # "idle" /\ Tried' = Tried
  BY <1>2 DEF Tried, CatInv, CatTypeOK, IsListing
<1>6. RowsInserted'
  BY <1>1, <1>5 DEF CatInv, RowsInserted
<1>7. RowsHavePictures'
  BY <1>1, <1>2 DEF CatInv, RowsHavePictures
<1> QED
  BY <1>3, <1>4, <1>6, <1>7 DEF CatInv

-----------------------------------------------------------------------------
(* More shows what the path of a row names. *)
LEMMA ShownKeeps ==
    ASSUME CatInv, OwnPictureShown, [Next]_vars
    PROVE  OwnPictureShown'
<1>1. ASSUME NEW n PROVE Offer(n) = PosIn(offered, n) /\ Offer(n)' = PosIn(offered', n)
  BY DEF Offer, PosIn
<1>2. CASE shown' = Nothing
  BY <1>2 DEF OwnPictureShown
<1>3. CASE shown' = shown /\ offered' = offered /\ cut' = cut
  BY <1>3 DEF OwnPictureShown, Offer
<1>4. CASE \E i \in DOMAIN Pattern : More(Pattern[i])
  <2>1. PICK i \in DOMAIN Pattern : More(Pattern[i])
    BY <1>4
  <2> DEFINE r == Pattern[i]
             k == PosIn(offered, r.name)
  <2>2. /\ offered' = offered /\ cut' = cut /\ images' = images
        /\ shown' = [name |-> r.name,
                     picture |-> IF r.path \in DOMAIN images THEN images[r.path] ELSE NoPicture]
        /\ step = "idle"
    BY <2>1 DEF More
  <2>3. \/ r.path = Nothing /\ cut
        \/ HasPicture(offered, images, r)
    BY <2>2 DEF CatInv, RowsHavePictures
  <2>4. \/ shown'.picture = NoPicture /\ cut
        \/ PictureOf(offered, k, shown'.picture)
    BY <2>2, <2>3 DEF HasPicture, CatInv, CatTypeOK
  <2>5. shown'.name = r.name
    BY <2>2
  <2> HIDE DEF r, k
  <2>6. \/ shown'.picture = offered'[k].picture
        \/ shown'.picture = NoPicture /\ cut'
        \/ \E j \in k + 1 .. Len(offered') :
              /\ shown'.picture = offered'[j].picture
              /\ offered'[j].type = offered'[k].type
              /\ \A l \in k + 1 .. j : offered'[l].quoted # "nowhere"
    BY <2>2, <2>4 DEF PictureOf, AllFail
  <2>7. Offer(shown.name)' = k
    BY <2>2, <2>5 DEF Offer, PosIn, k
  <2> QED
    BY <2>6, <2>7 DEF OwnPictureShown
<1> QED
  BY <1>2, <1>3, <1>4 DEF Next, vars, tables, Update, InsertPattern, SaveImage, InsertTest,
     NextPattern, Die, ToTest

(* The picture shown with a pattern is that of the server's answer, unless the
   program died while it stored it, or patterns behind it could not be stored
   and wrote into its file: for every listing with each name once. *)
THEOREM OwnPictureAlwaysShown == Spec => []OwnPictureShown
<1>1. Init => CatInv /\ OwnPictureShown
  BY CatInitial DEF Init, OwnPictureShown
<1>2. CatInv /\ OwnPictureShown /\ [Next]_vars => CatInv' /\ OwnPictureShown'
  BY UpdateKeeps, InsertKeeps, SaveKeeps, TheRestKeeps, ShownKeeps DEF Next
<1> QED
  BY <1>1, <1>2, PTL DEF Spec
-----------------------------------------------------------------------------
(* Sequences.  What holds at 0 and is handed on holds everywhere.           *)
LEMMA Less == IsWellFoundedOn({ss \in Nat \X Nat : ss[1] < ss[2]}, Nat)
  BY NatLessThanWellFounded DEF OpToRel

LEMMA HasLeast ==
  ASSUME NEW T \in SUBSET Nat, T # {}
  PROVE  \E x \in T : \A y \in T : x <= y
<1> DEFINE R == {ss \in Nat \X Nat : ss[1] < ss[2]}
<1>1. \E x \in T : \A y \in T : ~ (<<y, x>> \in R)
  BY Less, WFMin
<1>2. \A x, y \in Nat : ~ (<<y, x>> \in R) => x <= y
  OBVIOUS
<1> QED
  BY <1>1, <1>2
LEMMA Induction ==
  ASSUME NEW n \in Nat, NEW T, 0 \in T, \A i \in 1..n : i - 1 \in T => i \in T
  PROVE  0..n \subseteq T
<1> DEFINE D == (0..n) \ T
<1>1. CASE D = {}
  BY <1>1
<1>2. CASE D # {}
  <2>0. D \in SUBSET Nat
    OBVIOUS
  <2>1. PICK x \in D : \A y \in D : x <= y
    <3> HIDE DEF D
    <3> QED BY <2>0, <1>2, HasLeast
  <2>2. x \in 1..n /\ x - 1 \in 0..n /\ x - 1 \notin D
    BY <2>1
  <2> QED
    BY <2>1, <2>2
<1> QED
  BY <1>1, <1>2

(* FlattenSeq, by what it has made of every prefix.                         *)
Flattening(s, n, P) ==
  /\ P[0] = <<>>
  /\ \A i \in 1..n : P[i] = P[i - 1] \o s[i]

LEMMA FlattenIs ==
  ASSUME NEW S, NEW s \in Seq(Seq(S)), NEW P, Flattening(s, Len(s), P)
  PROVE  FlattenSeq(s) = P[Len(s)]
<1> DEFINE n == Len(s)
           Def(f) == [i \in 1..Len(s) |-> IF i = 1 THEN s[i] ELSE f[i - 1] \o s[i]]
           flatten == CHOOSE f : f = Def(f)
<1>0. n \in Nat /\ \A i \in 1..n : s[i] \in Seq(S)
  BY LenProperties, ElementOfSeq
<1>1. CASE n = 0
  <2>1. s = <<>>
    BY <1>1, EmptySeq
  <2> QED BY <1>1, <2>1 DEF FlattenSeq, Flattening
<1>2. CASE n # 0
  <2>0. FlattenSeq(s) = flatten[n]
    BY <1>2 DEF FlattenSeq
  <2>1. ASSUME 1 \in 1..n PROVE P[1] = s[1]
    <3>1. P[1] = P[0] \o s[1] /\ P[0] = <<>>
      <4>1. 1 - 1 = 0
        OBVIOUS
      <4> QED BY <2>1, <4>1 DEF Flattening
    <3> QED BY <1>0, <2>1, <3>1, ConcatEmptySeq
  <2>2. \A i \in 1..n : P[i] = IF i = 1 THEN s[i] ELSE P[i - 1] \o s[i]
    BY <2>1 DEF Flattening
  <2>3. [i \in 1..n |-> P[i]] = Def([i \in 1..n |-> P[i]])
    <3>1. \A i \in 1..n : i # 1 => i - 1 \in 1..n
      BY <1>0
    <3> HIDE DEF n
    <3>2. [i \in 1..n |-> P[i]] = [i \in 1..n |-> IF i = 1 THEN s[i] ELSE [k \in 1..n |-> P[k]][i - 1] \o s[i]]
      BY <2>2, <3>1
    <3> QED BY <3>2 DEF n
  <2>4. flatten = Def(flatten)
    BY <2>3
  <2> HIDE DEF flatten
  <2>5. \A i \in 1..n : flatten[i] = IF i = 1 THEN s[i] ELSE flatten[i - 1] \o s[i]
    BY <2>4
  <2> HIDE DEF n
  <2> DEFINE T == {i \in 0..n : i = 0 \/ flatten[i] = P[i]}
  <2>6. \A i \in 1..n : i - 1 \in T => i \in T
    BY <1>0, <2>2, <2>5
  <2>7. 0 \in T
    BY <1>0
  <2>8. n \in T
    <3> HIDE DEF T
    <3>1. 0..n \subseteq T
      BY <1>0, <2>6, <2>7, Induction
    <3> QED BY <1>0, <3>1
  <2> QED BY <1>2, <2>0, <2>8 DEF n
<1> QED BY <1>1, <1>2

(* Every sequence of sequences has such prefixes. *)
LEMMA FlatteningExists ==
  ASSUME NEW S, NEW s, NEW n \in Nat, \A i \in 1..n : s[i] \in Seq(S)
  PROVE  \E P : Flattening(s, n, P) /\ \A i \in 0..n : P[i] \in Seq(S)
<1> DEFINE Good(m, P) == Flattening(s, m, P) /\ \A i \in 0..m : P[i] \in Seq(S)
           T == {m \in 0..n : \E P : Good(m, P)}
<1>1. 0 \in T
  <2>1. Good(0, [i \in 0..0 |-> <<>>])
    BY DEF Flattening
  <2> QED BY <2>1
<1>2. ASSUME NEW m \in 1..n, m - 1 \in T PROVE m \in T
  <2>1. PICK P : Good(m - 1, P)
    BY <1>2
  <2>2. m - 1 \in 0..m-1 /\ P[m - 1] \in Seq(S) /\ P[m - 1] \o s[m] \in Seq(S)
    <3>1. m - 1 \in 0..m-1 /\ P[m - 1] \in Seq(S)
      BY <2>1
    <3> QED BY <3>1, ConcatProperties
  <2>3. PICK Q : Q = [i \in 0..m |-> IF i = m THEN P[m - 1] \o s[m] ELSE P[i]]
    OBVIOUS
  <2>4. Q[m] = P[m - 1] \o s[m] /\ \A i \in 0..m-1 : Q[i] = P[i]
    <3>1. m \in 0..m /\ \A i \in 0..m-1 : i \in 0..m /\ i # m
      OBVIOUS
    <3> QED BY <2>3, <3>1, Zenon
  <2>5. Flattening(s, m, Q)
    <3>1. \A i \in 1..m : i - 1 \in 0..m-1 /\ (i # m => i \in 0..m-1 /\ i \in 1..m-1)
      OBVIOUS
    <3>2. 0 \in 0..m-1
      OBVIOUS
    <3> QED BY <2>1, <2>4, <3>1, <3>2 DEF Flattening
  <2>6. Good(m, Q)
    <3>1. \A i \in 0..m : i = m \/ i \in 0..m-1
      OBVIOUS
    <3> QED BY <2>1, <2>2, <2>4, <2>5, <3>1
  <2> QED BY <2>6
<1>3. n \in T
  <2> HIDE DEF T
  <2>1. 0..n \subseteq T
    BY <1>1, <1>2, Induction
  <2> QED BY <2>1
<1> QED BY <1>3

(* Selected, one position after the other.                                  *)
Selecting(s, P, f, k) ==
  IF k = 0 THEN <<>> ELSE IF k \in P THEN Append(f[k - 1], s[k]) ELSE f[k - 1]
Selection(s, P, f, n) == \A k \in 0..n : f[k] = Selecting(s, P, f, k)
Alike(s, P, r, Q, n) == \A k \in 1..n : s[k] = r[k] /\ (k \in P <=> k \in Q)

LEMMA SelectedIs ==
  ASSUME NEW s, NEW P, NEW n \in Nat
  PROVE  \E f : Selection(s, P, f, n) /\ Selected(s, P, n) = f[n]
<1> DEFINE Def(f, m) == [k \in 0..m |-> IF k = 0 THEN <<>>
                           ELSE IF k \in P THEN Append(f[k - 1], s[k]) ELSE f[k - 1]]
           T == {m \in 0..n : \E f : f = Def(f, m)}
           upTo == CHOOSE f : f = Def(f, n)
<1>1. 0 \in T
  <2>1. [k \in 0..0 |-> <<>>] = Def([k \in 0..0 |-> <<>>], 0)
    OBVIOUS
  <2>2. \E f : f = Def(f, 0)
    BY <2>1
  <2> QED BY <2>2
<1>2. ASSUME NEW m \in 1..n, m - 1 \in T PROVE m \in T
  <2>1. PICK f : f = Def(f, m - 1)
    BY <1>2
  <2>2. PICK x : x = IF m \in P THEN Append(f[m - 1], s[m]) ELSE f[m - 1]
    OBVIOUS
  <2>3. PICK g : g = [k \in 0..m |-> IF k = m THEN x ELSE f[k]]
    OBVIOUS
  <2>4. \A k \in 0..m-1 : k \in 0..m /\ k # m /\ (k # 0 => k - 1 \in 0..m-1)
    OBVIOUS
  <2>5. \A k \in 0..m : k \in 0..m-1 \/ k = m
    OBVIOUS
  <2>6. \A k \in 0..m-1 : f[k] = Selecting(s, P, f, k)
    BY <2>1 DEF Selecting
  <2>7. m \in 0..m /\ m - 1 \in 0..m-1 /\ m # 0
    OBVIOUS
  <2>8. g[m] = x /\ \A k \in 0..m-1 : g[k] = f[k]
    BY <2>3, <2>4, <2>7
  <2>9. \A k \in 0..m : g[k] = Selecting(s, P, g, k)
    BY <2>2, <2>4, <2>5, <2>6, <2>7, <2>8 DEF Selecting
  <2>10. g = Def(g, m)
    BY <2>3, <2>9 DEF Selecting
  <2> HIDE DEF Def
  <2>11. m \in 0..n /\ \E h : h = Def(h, m)
    BY <2>7, <2>10
  <2> QED BY <2>11
<1>3. n \in T
  <2> HIDE DEF T
  <2>1. 0..n \subseteq T
    BY <1>1, <1>2, Induction
  <2> QED BY <2>1
<1>4. upTo = Def(upTo, n)
  BY <1>3
<1>5. Selected(s, P, n) = upTo[n]
  BY DEF Selected
<1> HIDE DEF upTo
<1>6. \A k \in 0..n : upTo[k] = Selecting(s, P, upTo, k)
  BY <1>4 DEF Selecting
<1> QED BY <1>5, <1>6 DEF Selection

LEMMA SelectingAgrees ==
  ASSUME NEW s, NEW r, NEW P, NEW Q, NEW f, NEW g, NEW n \in Nat,
         Alike(s, P, r, Q, n), Selection(s, P, f, n), Selection(r, Q, g, n)
  PROVE  f[n] = g[n]
<1> DEFINE T == {k \in 0..n : f[k] = g[k]}
<1>1. 0 \in T
  BY DEF Selection, Selecting
<1>2. ASSUME NEW k \in 1..n, k - 1 \in T PROVE k \in T
  <2>1. k \in 0..n /\ k # 0 /\ f[k - 1] = g[k - 1]
    BY <1>2
  <2> QED BY <2>1 DEF Alike, Selection, Selecting
<1> HIDE DEF T
<1>3. 0..n \subseteq T
  BY <1>1, <1>2, Induction
<1> QED BY <1>3 DEF T

LEMMA SelectedAgrees ==
  ASSUME NEW s, NEW r, NEW P, NEW Q, NEW n \in Nat, Alike(s, P, r, Q, n)
  PROVE  Selected(s, P, n) = Selected(r, Q, n)
<1>1. PICK f : Selection(s, P, f, n) /\ Selected(s, P, n) = f[n]
  BY SelectedIs
<1>2. PICK g : Selection(r, Q, g, n) /\ Selected(r, Q, n) = g[n]
  BY SelectedIs
<1>3. f[n] = g[n]
  BY <1>1, <1>2, SelectingAgrees
<1> QED BY <1>1, <1>2, <1>3

LEMMA SelectedStep ==
  ASSUME NEW s, NEW P, NEW n \in Nat, n # 0
  PROVE  Selected(s, P, n) = IF n \in P THEN Append(Selected(s, P, n - 1), s[n])
                             ELSE Selected(s, P, n - 1)
<1>1. PICK f : Selection(s, P, f, n) /\ Selected(s, P, n) = f[n]
  BY SelectedIs
<1>2. f[n] = Selecting(s, P, f, n)
  BY <1>1 DEF Selection
<1>3. n - 1 \in Nat
  OBVIOUS
<1>4. PICK g : Selection(s, P, g, n - 1) /\ Selected(s, P, n - 1) = g[n - 1]
  BY <1>3, SelectedIs
<1>5. Selection(s, P, f, n - 1) /\ Alike(s, P, s, P, n - 1)
  BY <1>1 DEF Selection, Alike
<1>6. f[n - 1] = g[n - 1]
  BY <1>3, <1>4, <1>5, SelectingAgrees
<1> QED BY <1>1, <1>2, <1>4, <1>6 DEF Selecting

LEMMA SelectedNext ==
  ASSUME NEW s, NEW P, NEW l \in Nat
  PROVE  Selected(s, P, l + 1) = IF l + 1 \in P THEN Append(Selected(s, P, l), s[l + 1])
                                 ELSE Selected(s, P, l)
<1>1. ASSUME NEW n \in Nat, n # 0
      PROVE  Selected(s, P, n) = IF n \in P THEN Append(Selected(s, P, n - 1), s[n])
                                 ELSE Selected(s, P, n - 1)
  BY <1>1, SelectedStep
<1>2. l + 1 \in Nat /\ l + 1 # 0 /\ (l + 1) - 1 = l
  OBVIOUS
<1> QED BY <1>1, <1>2

LEMMA SelectedNone ==
  ASSUME NEW s, NEW P
  PROVE  Selected(s, P, 0) = <<>>
<1>1. PICK f : Selection(s, P, f, 0) /\ Selected(s, P, 0) = f[0]
  BY SelectedIs
<1> QED BY <1>1 DEF Selection, Selecting

Holds(s, n, S) == \A k \in 1..n : s[k] \in S
HoldsAt(s, P, n, S) == \A k \in 1..n : k \in P => s[k] \in S
Begins(a, b) == Len(a) <= Len(b) /\ \A i \in 1..Len(a) : b[i] = a[i]

LEMMA BeginsAppend ==
  ASSUME NEW S, NEW a \in Seq(S), NEW b \in Seq(S), NEW x \in S, Begins(a, b)
  PROVE  Begins(a, Append(b, x))
<1>1. PICK l \in Nat, n \in Nat : l = Len(a) /\ n = Len(b)
  BY LenProperties
<1>2. PICK t : t = Append(b, x)
  OBVIOUS
<1>3. Len(t) = n + 1 /\ \A i \in 1..n : t[i] = b[i]
  BY <1>1, <1>2, AppendProperties
<1>4. l <= n /\ \A i \in 1..l : b[i] = a[i]
  BY <1>1 DEF Begins
<1>5. l <= n + 1 /\ \A i \in 1..l : t[i] = a[i]
  BY <1>3, <1>4
<1> QED BY <1>1, <1>2, <1>3, <1>5 DEF Begins

LEMMA BeginsPrefix ==
  ASSUME NEW S, NEW a \in Seq(S), NEW b \in Seq(S), Begins(a, b)
  PROVE  IsPrefix(a, b) /\ (Len(a) = Len(b) => a = b)
<1>1. PICK l \in Nat, n \in Nat : l = Len(a) /\ n = Len(b)
  BY LenProperties
<1>2. l <= n /\ \A i \in 1..l : b[i] = a[i]
  BY <1>1 DEF Begins
<1>3. SubSeq(a, 1, l) = SubSeq(b, 1, l)
  BY <1>2
<1>4. Len(a) = Len(b) => a = b
  BY <1>1, <1>2, SeqEqual
<1> QED BY <1>1, <1>2, <1>3, <1>4 DEF IsPrefix

LEMMA SelectedFrom ==
  ASSUME NEW S, NEW s, NEW P, NEW n \in Nat, HoldsAt(s, P, n, S)
  PROVE  Selected(s, P, n) \in Seq(S)
<1> DEFINE G(k) == Selected(s, P, k) \in Seq(S)
           T == {k \in 0..n : G(k)}
<1>1. 0 \in T
  <2>1. <<>> \in Seq(S)
    OBVIOUS
  <2>2. Selected(s, P, 0) = <<>>
    BY SelectedNone
  <2>3. G(0)
    BY <2>1, <2>2
  <2> HIDE DEF G
  <2> QED BY <2>3
<1>2. ASSUME NEW k \in 1..n, k - 1 \in T PROVE k \in T
  <2>1. k \in 0..n /\ k \in Nat /\ k # 0 /\ Selected(s, P, k - 1) \in Seq(S) /\ (k \in P => s[k] \in S)
    BY <1>2 DEF HoldsAt
  <2>2. k \in P => Append(Selected(s, P, k - 1), s[k]) \in Seq(S)
    BY <2>1, AppendProperties
  <2>3. Selected(s, P, k) = IF k \in P THEN Append(Selected(s, P, k - 1), s[k])
                            ELSE Selected(s, P, k - 1)
    BY <2>1, SelectedStep
  <2>4. Selected(s, P, k) \in Seq(S)
    BY <2>1, <2>2, <2>3
  <2> QED BY <2>1, <2>4
<1> HIDE DEF T
<1>3. 0..n \subseteq T
  BY <1>1, <1>2, Induction
<1> QED BY <1>3 DEF T

LEMMA SelectedType ==
  ASSUME NEW S, NEW s, NEW P, NEW n \in Nat, Holds(s, n, S)
  PROVE  Selected(s, P, n) \in Seq(S)
<1>1. HoldsAt(s, P, n, S)
  BY DEF Holds, HoldsAt
<1> QED BY <1>1, SelectedFrom

(* What is selected up to a position begins what is selected up to a later one. *)
LEMMA SelectedPrefix ==
  ASSUME NEW S, NEW s, NEW P, NEW n \in Nat, Holds(s, n, S), NEW m \in 0..n
  PROVE  Begins(Selected(s, P, m), Selected(s, P, n))
<1> DEFINE T == {k \in 0..n : k >= m => Begins(Selected(s, P, m), Selected(s, P, k))}
<1>0. ASSUME NEW k \in 0..n PROVE Selected(s, P, k) \in Seq(S)
  <2>1. k \in Nat /\ Holds(s, k, S)
    BY DEF Holds
  <2> QED BY <2>1, SelectedType
<1>1. Begins(Selected(s, P, m), Selected(s, P, m))
  <2>1. Len(Selected(s, P, m)) \in Nat
    BY <1>0, LenProperties
  <2> QED BY <2>1 DEF Begins
<1>2. 0 \in T
  <2>1. 0 >= m => m = 0
    OBVIOUS
  <2> QED BY <1>1, <2>1
<1>3. ASSUME NEW k \in 1..n, k - 1 \in T PROVE k \in T
  <2>1. k \in 0..n /\ k - 1 \in 0..n /\ k \in Nat /\ k # 0
    OBVIOUS
  <2>2. ASSUME k >= m PROVE Begins(Selected(s, P, m), Selected(s, P, k))
    <3>1. CASE k = m
      BY <1>1, <3>1
    <3>2. CASE k # m
      <4>1. Begins(Selected(s, P, m), Selected(s, P, k - 1))
        BY <1>3, <2>2, <3>2
      <4>2. s[k] \in S
        BY DEF Holds
      <4>3. Begins(Selected(s, P, m), Append(Selected(s, P, k - 1), s[k]))
        BY <1>0, <2>1, <4>1, <4>2, BeginsAppend
      <4>4. Selected(s, P, k) = IF k \in P THEN Append(Selected(s, P, k - 1), s[k])
                                ELSE Selected(s, P, k - 1)
        BY <2>1, SelectedStep
      <4> QED BY <4>1, <4>3, <4>4
    <3> QED BY <3>1, <3>2
  <2> QED BY <2>1, <2>2
<1> HIDE DEF T
<1>4. 0..n \subseteq T
  BY <1>2, <1>3, Induction
<1>5. n \in T /\ n >= m
  BY <1>4
<1> QED BY <1>5 DEF T

LEMMA SelectedAll ==
  ASSUME NEW S, NEW s, NEW P, NEW n \in Nat, Holds(s, n, S), 1..n \subseteq P
  PROVE  Selected(s, P, n) = [k \in 1..n |-> s[k]]
<1> DEFINE G(k) == Selected(s, P, k) = [i \in 1..k |-> s[i]]
           T == {k \in 0..n : G(k)}
<1>1. 0 \in T
  <2>1. [i \in 1..0 |-> s[i]] = <<>>
    OBVIOUS
  <2>2. Selected(s, P, 0) = <<>>
    BY SelectedNone
  <2>3. G(0)
    BY <2>1, <2>2
  <2> HIDE DEF G
  <2> QED BY <2>3
<1>2. ASSUME NEW k \in 1..n, k - 1 \in T PROVE k \in T
  <2>1. k \in 0..n /\ k \in Nat /\ k # 0 /\ k \in P
    OBVIOUS
  <2>2. PICK d : d = [i \in 1..k - 1 |-> s[i]]
    OBVIOUS
  <2>3. Selected(s, P, k) = Append(d, s[k])
    BY <1>2, <2>1, <2>2, SelectedStep
  <2>4. d \in Seq(S) /\ Len(d) = k - 1 /\ s[k] \in S /\ \A i \in 1..k - 1 : d[i] = s[i]
    <3>1. \A i \in 1..k - 1 : s[i] \in S
      BY DEF Holds
    <3>2. k - 1 \in Nat /\ s[k] \in S
      BY DEF Holds
    <3> QED BY <2>2, <3>1, <3>2
  <2>5. Append(d, s[k]) = [i \in 1..k |-> s[i]]
    BY <2>1, <2>4
  <2> QED BY <2>1, <2>3, <2>5
<1> HIDE DEF T
<1>3. 0..n \subseteq T
  BY <1>1, <1>2, Induction
<1> QED BY <1>3 DEF T

(* Where each sequence lies in what FlattenSeq makes of all of them.         *)
Placed(s, n, file, W) ==
  /\ W \in [0..n -> Nat] /\ W[0] = 0 /\ Len(file) = W[n]
  /\ \A i \in 1..n : /\ W[i] = W[i - 1] + Len(s[i]) /\ W[i] <= Len(file)
                     /\ \A j \in 1..Len(s[i]) : file[W[i - 1] + j] = s[i][j]

Typed(P, n, S) == \A i \in 0..n : P[i] \in Seq(S)

LEMMA JoinIs ==
  ASSUME NEW S, NEW x \in Seq(S), NEW v \in Seq(S)
  PROVE  /\ x \o v \in Seq(S) /\ Len(x \o v) = Len(x) + Len(v)
         /\ \A i \in 1..Len(x) : (x \o v)[i] = x[i]
         /\ \A i \in 1..Len(v) : (x \o v)[Len(x) + i] = v[i]
<1>0. PICK n \in Nat, m \in Nat : n = Len(x) /\ m = Len(v)
  BY LenProperties
<1>1. /\ x \o v \in Seq(S) /\ Len(x \o v) = Len(x) + Len(v)
      /\ \A i \in 1..Len(x) + Len(v) : (x \o v)[i] = IF i <= Len(x) THEN x[i] ELSE v[i - Len(x)]
  BY ConcatProperties
<1>2. PICK t \in Seq(S) : /\ t = x \o v /\ Len(t) = n + m
                          /\ \A i \in 1..n + m : t[i] = IF i <= n THEN x[i] ELSE v[i - n]
  BY <1>0, <1>1
<1>3. \A i \in 1..n : t[i] = x[i]
  BY <1>2
<1>4. \A i \in 1..m : t[n + i] = v[i]
  <2>1. \A i \in 1..m : n + i \in 1..n + m /\ ~ (n + i <= n) /\ n + i - n = i
    OBVIOUS
  <2> QED BY <1>2, <2>1
<1> QED BY <1>0, <1>2, <1>3, <1>4

LEMMA BeginsTransitive ==
  ASSUME NEW S, NEW a \in Seq(S), NEW b \in Seq(S), NEW c \in Seq(S), Begins(a, b), Begins(b, c)
  PROVE  Begins(a, c)
<1>1. PICK l \in Nat, m \in Nat, n \in Nat : l = Len(a) /\ m = Len(b) /\ n = Len(c)
  BY LenProperties
<1>2. l <= m /\ (\A i \in 1..l : b[i] = a[i]) /\ m <= n /\ \A i \in 1..m : c[i] = b[i]
  BY <1>1 DEF Begins
<1>3. l <= n /\ \A i \in 1..l : c[i] = a[i]
  BY <1>2
<1> QED BY <1>1, <1>3 DEF Begins

LEMMA BeginsJoin ==
  ASSUME NEW S, NEW a \in Seq(S), NEW b \in Seq(S)
  PROVE  Begins(a, a \o b)
<1>1. PICK n \in Nat, m \in Nat : n = Len(a) /\ m = Len(b)
  BY LenProperties
<1>2. Len(a \o b) = n + m /\ \A i \in 1..n : (a \o b)[i] = a[i]
  BY <1>1, JoinIs
<1>3. n <= n + m
  OBVIOUS
<1> QED BY <1>1, <1>2, <1>3 DEF Begins

LEMMA FlatteningBegins ==
  ASSUME NEW S, NEW s, NEW n \in Nat, NEW P, Flattening(s, n, P), Typed(P, n, S),
         Holds(s, n, Seq(S)), NEW m \in 0..n
  PROVE  Begins(P[m], P[n])
<1> DEFINE T == {k \in 0..n : k >= m => Begins(P[m], P[k])}
<1>1. Begins(P[m], P[m])
  <2>1. Len(P[m]) \in Nat
    BY LenProperties DEF Typed
  <2> QED BY <2>1 DEF Begins
<1>2. 0 \in T
  <2>1. 0 >= m => m = 0
    OBVIOUS
  <2> QED BY <1>1, <2>1
<1>3. ASSUME NEW k \in 1..n, k - 1 \in T PROVE k \in T
  <2>1. k \in 0..n /\ k - 1 \in 0..n
    OBVIOUS
  <2>2. P[k] = P[k - 1] \o s[k] /\ P[k - 1] \in Seq(S) /\ s[k] \in Seq(S) /\ P[m] \in Seq(S)
        /\ P[k] \in Seq(S)
    BY <2>1 DEF Flattening, Typed, Holds
  <2>3. Begins(P[k - 1], P[k])
    BY <2>2, BeginsJoin
  <2>4. ASSUME k >= m PROVE Begins(P[m], P[k])
    <3>1. k = m \/ k - 1 >= m
      BY <2>4
    <3>2. CASE k = m
      BY <1>1, <3>2
    <3>3. CASE k - 1 >= m
      <4>1. Begins(P[m], P[k - 1])
        BY <1>3, <3>3
      <4> QED BY <2>2, <2>3, <4>1, BeginsTransitive
    <3> QED BY <3>1, <3>2, <3>3
  <2> QED BY <2>1, <2>4
<1> HIDE DEF T
<1>4. 0..n \subseteq T
  BY <1>2, <1>3, Induction
<1>5. n \in T /\ n >= m
  BY <1>4
<1> QED BY <1>5 DEF T

LEMMA FlattenPlaces ==
  ASSUME NEW S, NEW s \in Seq(Seq(S)), NEW n \in Nat, n = Len(s)
  PROVE  FlattenSeq(s) \in Seq(S) /\ \E W : Placed(s, n, FlattenSeq(s), W)
<1>1. Holds(s, n, Seq(S))
  BY ElementOfSeq DEF Holds
<1>2. PICK P : Flattening(s, n, P) /\ Typed(P, n, S)
  <2>1. \A i \in 1..n : s[i] \in Seq(S)
    BY <1>1 DEF Holds
  <2>2. \E P : Flattening(s, n, P) /\ \A i \in 0..n : P[i] \in Seq(S)
    BY <2>1, FlatteningExists
  <2> QED BY <2>2 DEF Typed
<1>3. PICK file : file = FlattenSeq(s)
  OBVIOUS
<1>4. file = P[n] /\ file \in Seq(S)
  <2>1. n \in 0..n
    OBVIOUS
  <2> QED BY <1>2, <1>3, <2>1, FlattenIs DEF Typed
<1>5. PICK W : W = [i \in 0..n |-> Len(P[i])]
  OBVIOUS
<1>6. \A i \in 0..n : W[i] = Len(P[i]) /\ W[i] \in Nat
  BY <1>2, <1>5, LenProperties DEF Typed
<1>7. W \in [0..n -> Nat] /\ W[0] = 0 /\ Len(file) = W[n]
  <2>1. P[0] = <<>> /\ 0 \in 0..n /\ n \in 0..n /\ Len(<<>>) = 0
    BY <1>2 DEF Flattening
  <2> QED BY <1>4, <1>5, <1>6, <2>1
<1>8. ASSUME NEW i \in 1..n
      PROVE  /\ W[i] = W[i - 1] + Len(s[i]) /\ W[i] <= Len(file)
             /\ \A j \in 1..Len(s[i]) : file[W[i - 1] + j] = s[i][j]
  <2>1. i \in 0..n /\ i - 1 \in 0..n
    OBVIOUS
  <2>2. PICK a \in Seq(S) : a = P[i - 1]
    BY <1>2, <2>1 DEF Typed
  <2>3. PICK b \in Seq(S) : b = s[i]
    BY <1>1 DEF Holds
  <2>4. PICK c \in Seq(S) : c = P[i] /\ c = a \o b
    BY <1>2, <2>1, <2>2, <2>3 DEF Typed, Flattening
  <2>5. PICK x \in Nat, y \in Nat : x = Len(a) /\ y = Len(b)
    BY LenProperties
  <2>6. Len(c) = x + y /\ \A j \in 1..y : c[x + j] = b[j]
    BY <2>4, <2>5, JoinIs
  <2>7. Len(c) <= Len(file) /\ \A k \in 1..Len(c) : file[k] = c[k]
    <3>1. Begins(c, file)
      BY <1>1, <1>2, <1>4, <2>1, <2>4, FlatteningBegins
    <3> QED BY <3>1 DEF Begins
  <2>8. W[i - 1] = x /\ W[i] = x + y /\ Len(s[i]) = y /\ W[i] <= Len(file)
    BY <1>6, <2>1, <2>2, <2>3, <2>4, <2>5, <2>6, <2>7
  <2>9. \A j \in 1..y : file[x + j] = b[j]
    <3>1. \A j \in 1..y : x + j \in 1..x + y
      OBVIOUS
    <3> QED BY <2>6, <2>7, <3>1
  <2> QED BY <2>3, <2>8, <2>9
<1>9. Placed(s, n, file, W)
  BY <1>7, <1>8 DEF Placed
<1> QED BY <1>3, <1>4, <1>9

(* Of sequences of one element each it makes the sequence of these elements. *)
LEMMA FlattenOnes ==
  ASSUME NEW S, NEW s \in Seq(Seq(S)), NEW n \in Nat, n = Len(s),
         \A i \in 1..n : Len(s[i]) = 1
  PROVE  Len(FlattenSeq(s)) = n /\ \A i \in 1..n : FlattenSeq(s)[i] = s[i][1]
<1>1. PICK file : file = FlattenSeq(s)
  OBVIOUS
<1>2. PICK W : Placed(s, n, file, W)
  BY <1>1, FlattenPlaces
<1>3. /\ W \in [0..n -> Nat] /\ W[0] = 0 /\ Len(file) = W[n]
      /\ \A i \in 1..n : W[i] = W[i - 1] + 1 /\ file[W[i - 1] + 1] = s[i][1]
  <2>1. W \in [0..n -> Nat] /\ W[0] = 0 /\ Len(file) = W[n]
    BY <1>2 DEF Placed
  <2>2. ASSUME NEW i \in 1..n PROVE W[i] = W[i - 1] + 1 /\ file[W[i - 1] + 1] = s[i][1]
    <3>1. Len(s[i]) = 1 /\ 1 \in 1..1
      OBVIOUS
    <3>2. W[i] = W[i - 1] + Len(s[i]) /\ \A j \in 1..Len(s[i]) : file[W[i - 1] + j] = s[i][j]
      BY <1>2 DEF Placed
    <3>3. \A j \in 1..1 : file[W[i - 1] + j] = s[i][j]
      BY <3>1, <3>2
    <3> QED BY <3>1, <3>2, <3>3
  <2> QED BY <2>1, <2>2
<1> DEFINE T == {i \in 0..n : W[i] = i}
<1>4. 0 \in T
  BY <1>3
<1>5. \A i \in 1..n : i - 1 \in T => i \in T
  BY <1>3
<1>6. \A i \in 0..n : W[i] = i
  <2> HIDE DEF T
  <2>1. 0..n \subseteq T
    BY <1>4, <1>5, Induction
  <2> QED BY <2>1 DEF T
<1>7. Len(file) = n /\ \A i \in 1..n : file[i] = s[i][1]
  <2>1. \A i \in 1..n : i - 1 \in 0..n /\ i - 1 + 1 = i
    OBVIOUS
  <2>2. \A i \in 1..n : W[i - 1] + 1 = i
    BY <1>6, <2>1
  <2>3. \A i \in 1..n : file[W[i - 1] + 1] = s[i][1]
    BY <1>3
  <2>4. \A i \in 1..n : file[i] = s[i][1]
    BY <2>2, <2>3, Zenon
  <2>5. W[n] = n
    BY <1>6
  <2> QED BY <1>3, <2>4, <2>5
<1> QED BY <1>1, <1>7

-----------------------------------------------------------------------------
(* The lines of one question: a chosen answer has seven, a written one three. *)
(* All of them are strings. *)
LineTexts == STRING \cup {"1", "3"}

QuestionLines(l) ==
  /\ l \in Seq(LineTexts)
  /\ \/ l[1] = "1" /\ Len(l) = 7
     \/ l[1] = "3" /\ Len(l) = 3

LEMMA JoinedAre ==
  ASSUME NEW U, NEW f \in U, NEW q \in U, NEW o \in Seq(U), NEW c \in U,
         NEW s, s = (<<f, q>> \o o) \o <<c>>
  PROVE  s \in Seq(U) /\ Len(s) = 3 + Len(o) /\ s[1] = f
<1>1. PICK l \in Nat : l = Len(o)
  BY LenProperties
<1>2. PICK a : a = <<f, q>>
  OBVIOUS
<1>3. a \in Seq(U) /\ Len(a) = 2 /\ a[1] = f
  BY <1>2
<1>4. PICK b : b = <<c>>
  OBVIOUS
<1>5. b \in Seq(U) /\ Len(b) = 1
  BY <1>4
<1>6. PICK d : d = a \o o
  OBVIOUS
<1>7. d \in Seq(U) /\ Len(d) = 2 + l /\ d[1] = f
  <2>1. /\ a \o o \in Seq(U) /\ Len(a \o o) = Len(a) + Len(o)
        /\ \A i \in 1..Len(a) : (a \o o)[i] = a[i]
    BY <1>3, JoinIs
  <2>2. 1 \in 1..Len(a)
    BY <1>3
  <2>3. d[1] = a[1]
    BY <1>6, <2>1, <2>2
  <2> QED BY <1>1, <1>3, <1>6, <2>1, <2>3
<1>8. s \in Seq(U) /\ Len(s) = (2 + l) + 1 /\ s[1] = f
  <2>1. s = d \o b
    BY <1>2, <1>4, <1>6
  <2>2. /\ d \o b \in Seq(U) /\ Len(d \o b) = Len(d) + Len(b)
        /\ \A i \in 1..Len(d) : (d \o b)[i] = d[i]
    BY <1>5, <1>7, JoinIs
  <2>3. 1 \in 1..Len(d)
    BY <1>7
  <2>4. s[1] = d[1]
    BY <2>1, <2>2, <2>3
  <2> QED BY <1>5, <1>7, <2>1, <2>2, <2>4
<1> QED BY <1>1, <1>8

LEMMA SeqOfMore ==
  ASSUME NEW A, NEW B, A \subseteq B, NEW x \in Seq(A)
  PROVE  x \in Seq(B)
<1>1. PICK n \in Nat : n = Len(x)
  BY LenProperties
<1>2. x = [i \in 1..n |-> x[i]] /\ \A i \in 1..n : x[i] \in B
  BY <1>1, LenProperties, ElementOfSeq
<1> QED BY <1>2

LEMMA TextsAre ==
  ASSUME NEW t \in FourOptions, t.type \in {1, 2}
  PROVE  /\ Texts(t) \in Seq(Seq(LineTexts))
         /\ \/ Len(Texts(t)) = 7 /\ Texts(t)[1] = <<"1">>
            \/ Len(Texts(t)) = 3 /\ Texts(t)[1] = <<"3">>
<1>1. PICK U : U = Seq(LineTexts)
  OBVIOUS
<1>2. t.question \in U /\ t.correct \in U /\ t.options \in Seq(U) /\ (t.type = 1 => Len(t.options) = 4)
  <2>1. STRING \subseteq LineTexts
    BY DEF LineTexts
  <2>2. Seq(STRING) \subseteq U
    BY <1>1, <2>1, SeqOfMore
  <2>3. Seq(Seq(STRING)) \subseteq Seq(U)
    BY <2>2, SeqOfMore
  <2> QED BY <2>2, <2>3 DEF FourOptions, Test, Text
<1>3. PICK s : s = Texts(t)
  OBVIOUS
<1>4. CASE t.type = 1
  <2>1. PICK f : f = <<"1">>
    OBVIOUS
  <2>2. f \in U
    BY <1>1, <2>1 DEF LineTexts
  <2>3. s = (<<f, t.question>> \o t.options) \o <<t.correct>>
    BY <1>3, <1>4, <2>1 DEF Texts, TypeInFile
  <2>4. s \in Seq(U) /\ Len(s) = 3 + Len(t.options) /\ s[1] = f
    BY <1>2, <2>2, <2>3, JoinedAre
  <2>5. Len(s) = 7
    <3>1. Len(t.options) = 4
      BY <1>2, <1>4
    <3>2. Len(s) = 3 + 4
      BY <2>4, <3>1
    <3> QED BY <3>2
  <2> QED BY <1>1, <1>3, <2>1, <2>4, <2>5
<1>5. CASE t.type = 2
  <2>1. PICK f : f = <<"3">>
    OBVIOUS
  <2>2. f \in U
    BY <1>1, <2>1 DEF LineTexts
  <2>3. s = (<<f, t.question>> \o <<>>) \o <<t.correct>>
    BY <1>3, <1>5, <2>1 DEF Texts, TypeInFile
  <2>4. <<>> \in Seq(U) /\ Len(<<>>) = 0
    OBVIOUS
  <2>5. s \in Seq(U) /\ Len(s) = 3 + Len(<<>>) /\ s[1] = f
    BY <1>2, <2>2, <2>3, <2>4, JoinedAre
  <2>6. Len(s) = 3
    BY <2>4, <2>5
  <2> QED BY <1>1, <1>3, <2>1, <2>5, <2>6
<1> QED BY <1>4, <1>5

LEMMA LinesAre ==
  ASSUME NEW t \in FourOptions, t.type \in {1, 2}, SingleLines(t)
  PROVE  QuestionLines(Lines(t))
<1>1. PICK s : s = Texts(t)
  OBVIOUS
<1>2. PICK n : n = Len(s)
  OBVIOUS
<1>3. s \in Seq(Seq(LineTexts)) /\ ((s[1] = <<"1">> /\ n = 7) \/ (s[1] = <<"3">> /\ n = 3))
  BY <1>1, <1>2, TextsAre
<1>4. n \in Nat /\ 1 \in 1..n
  BY <1>3
<1>5. \A i \in 1..n : Len(s[i]) = 1
  <2>1. DOMAIN s = 1..n
    BY <1>2, <1>3, LenProperties
  <2> QED BY <1>1, <2>1 DEF SingleLines
<1>6. PICK l : l = FlattenSeq(s)
  OBVIOUS
<1>7. l \in Seq(LineTexts) /\ Len(l) = n /\ \A i \in 1..n : l[i] = s[i][1]
  BY <1>2, <1>3, <1>4, <1>5, <1>6, FlattenOnes, FlattenPlaces
<1>8. l[1] = s[1][1]
  BY <1>4, <1>7
<1>9. Lines(t) = l
  BY <1>1, <1>6 DEF Lines
<1>10. s[1] = <<"1">> /\ n = 7 => s[1][1] = "1"
  OBVIOUS
<1>11. s[1] = <<"3">> /\ n = 3 => s[1][1] = "3"
  OBVIOUS
<1> QED BY <1>3, <1>7, <1>8, <1>9, <1>10, <1>11 DEF QuestionLines

-----------------------------------------------------------------------------
(* Reading the file: init finds every question where it was written.         *)
LEMMA NumbersAre ==
  Number("1") = 1 /\ Number("3") = 3
BY DEF Number, Numbers

Starting(file, st, i) == IF i = 1 THEN 1 ELSE st[i - 1] + LinesRead(file, st[i - 1])

LEMMA StartsAre ==
  ASSUME NEW file, NEW n \in Nat, NEW st, st = Starts(file, n)
  PROVE  \A i \in 1..n : st[i] = Starting(file, st, i)
<1> DEFINE Def(f, m) == [i \in 1..m |-> IF i = 1 THEN 1 ELSE f[i - 1] + LinesRead(file, f[i - 1])]
           T == {m \in 0..n : \E f : f = Def(f, m)}
           start == CHOOSE f : f = Def(f, n)
<1>1. 0 \in T
  <2>1. [i \in 1..0 |-> 1] = Def([i \in 1..0 |-> 1], 0)
    OBVIOUS
  <2>2. \E f : f = Def(f, 0)
    BY <2>1
  <2> HIDE DEF Def
  <2> QED BY <2>2
<1>2. ASSUME NEW m \in 1..n, m - 1 \in T PROVE m \in T
  <2>1. PICK f : f = Def(f, m - 1)
    BY <1>2
  <2>2. PICK x : x = IF m = 1 THEN 1 ELSE f[m - 1] + LinesRead(file, f[m - 1])
    OBVIOUS
  <2>3. PICK g : g = [i \in 1..m |-> IF i = m THEN x ELSE f[i]]
    OBVIOUS
  <2>4. \A i \in 1..m-1 : i \in 1..m /\ i # m /\ (i # 1 => i - 1 \in 1..m-1)
    OBVIOUS
  <2>5. \A i \in 1..m : i \in 1..m-1 \/ i = m
    OBVIOUS
  <2>6. \A i \in 1..m-1 : f[i] = Starting(file, f, i)
    BY <2>1 DEF Starting
  <2>7. m \in 1..m /\ (m # 1 => m - 1 \in 1..m-1)
    OBVIOUS
  <2>8. g[m] = x /\ \A i \in 1..m-1 : g[i] = f[i]
    BY <2>3, <2>4, <2>7
  <2>9. \A i \in 1..m : g[i] = Starting(file, g, i)
    BY <2>2, <2>4, <2>5, <2>6, <2>7, <2>8 DEF Starting
  <2>10. g = Def(g, m)
    BY <2>3, <2>9 DEF Starting
  <2> HIDE DEF Def
  <2>11. m \in 0..n /\ \E h : h = Def(h, m)
    BY <2>10
  <2> QED BY <2>11
<1>3. n \in T
  <2> HIDE DEF T
  <2>1. 0..n \subseteq T
    BY <1>1, <1>2, Induction
  <2> QED BY <2>1
<1>4. start = Def(start, n)
  BY <1>3
<1>5. st = start
  BY DEF Starts
<1> HIDE DEF start
<1> QED BY <1>4, <1>5 DEF Starting

AllQuestions(s, n) == \A i \in 1..n : QuestionLines(s[i])

LEMMA LinesReadIs ==
  ASSUME NEW l, QuestionLines(l), NEW file, NEW x \in Nat, x + Len(l) <= Len(file),
         file \in Seq(LineTexts), \A j \in 1..Len(l) : file[x + j] = l[j]
  PROVE  LinesRead(file, x + 1) = Len(l) /\ QuestionAt(file, x + 1) = l
<1>1. PICK m : m = Len(l)
  OBVIOUS
<1>2. l \in Seq(LineTexts) /\ ((l[1] = "1" /\ m = 7) \/ (l[1] = "3" /\ m = 3))
  BY <1>1 DEF QuestionLines
<1>3. m \in Nat /\ 1 \in 1..m
  BY <1>2
<1>4. PICK n \in Nat : n = Len(file) /\ DOMAIN file = 1..n
  BY LenProperties
<1>5. ASSUME NEW j \in 1..m PROVE Line(file, x + j) = l[j]
  <2>1. x + j \in 1..n
    BY <1>1, <1>3, <1>4
  <2> QED BY <1>1, <1>4, <2>1 DEF Line
<1>6. Line(file, x + 1) = l[1]
  BY <1>3, <1>5
<1>7. LinesRead(file, x + 1) = m
  <2>1. CASE l[1] = "1" /\ m = 7
    <3>1. Number(Line(file, x + 1)) = 1
      BY <1>6, <2>1, NumbersAre
    <3> QED BY <2>1, <3>1 DEF LinesRead
  <2>2. CASE l[1] = "3" /\ m = 3
    <3>1. Number(Line(file, x + 1)) = 3
      BY <1>6, <2>2, NumbersAre
    <3> QED BY <2>2, <3>1 DEF LinesRead
  <2> QED BY <1>2, <2>1, <2>2
<1>8. QuestionAt(file, x + 1) = l
  <2>1. \A j \in 1..m : (x + 1) + j - 1 = x + j
    BY <1>3
  <2>2. QuestionAt(file, x + 1) = [j \in 1..m |-> Line(file, (x + 1) + j - 1)]
    BY <1>7 DEF QuestionAt
  <2>3. \A j \in 1..m : Line(file, (x + 1) + j - 1) = l[j]
    BY <1>5, <2>1
  <2>4. QuestionAt(file, x + 1) = [j \in 1..m |-> l[j]]
    BY <2>2, <2>3
  <2>5. l = [j \in 1..m |-> l[j]]
    BY <1>1, <1>2, LenProperties
  <2> QED BY <2>4, <2>5
<1> QED BY <1>1, <1>7, <1>8

(* A file of questions of the known types is read as it was written. *)
LEMMA ReadIs ==
  ASSUME NEW n \in Nat, NEW s \in Seq(Seq(LineTexts)), n = Len(s), AllQuestions(s, n),
         NEW file, file = FlattenSeq(s)
  PROVE  Read(file, n).count = n /\ Read(file, n).questions = s
<1>1. file \in Seq(LineTexts)
  BY FlattenPlaces
<1>2. PICK W : Placed(s, n, file, W)
  BY FlattenPlaces
<1>3. PICK st : st = Starts(file, n)
  OBVIOUS
<1>4. \A i \in 1..n : st[i] = Starting(file, st, i)
  BY <1>3, StartsAre
<1>5. ASSUME NEW i \in 1..n
      PROVE  /\ W[i - 1] \in Nat /\ W[i] = W[i - 1] + Len(s[i])
             /\ LinesRead(file, W[i - 1] + 1) = Len(s[i])
             /\ QuestionAt(file, W[i - 1] + 1) = s[i]
  <2>1. i - 1 \in 0..n
    OBVIOUS
  <2>2. PICK x \in Nat : x = W[i - 1]
    BY <1>2, <2>1 DEF Placed
  <2>3. PICK l : l = s[i]
    OBVIOUS
  <2>4. QuestionLines(l)
    BY <2>3 DEF AllQuestions
  <2>5. x + Len(l) <= Len(file) /\ (\A j \in 1..Len(l) : file[x + j] = l[j]) /\ W[i] = x + Len(l)
    BY <1>2, <2>2, <2>3 DEF Placed
  <2>6. LinesRead(file, x + 1) = Len(l) /\ QuestionAt(file, x + 1) = l
    BY <1>1, <2>4, <2>5, LinesReadIs
  <2> QED BY <2>2, <2>3, <2>5, <2>6
<1> DEFINE T == {i \in 0..n : i # 0 => st[i] = W[i - 1] + 1}
<1>6. 0 \in T
  OBVIOUS
<1>7. ASSUME NEW i \in 1..n, i - 1 \in T PROVE i \in T
  <2>1. i \in 0..n /\ i # 0 /\ st[i] = Starting(file, st, i)
    BY <1>4
  <2>2. CASE i = 1
    <3>1. st[i] = 1 /\ W[i - 1] = 0
      BY <1>2, <2>1, <2>2 DEF Starting, Placed
    <3> QED BY <2>1, <3>1
  <2>3. CASE i # 1
    <3>1. PICK k \in 1..n : k = i - 1
      BY <2>3
    <3>2. st[k] = W[k - 1] + 1
      BY <1>7, <3>1
    <3>3. LinesRead(file, W[k - 1] + 1) = Len(s[k]) /\ W[k] = W[k - 1] + Len(s[k]) /\ W[k - 1] \in Nat
      BY <1>5
    <3>4. st[i] = st[k] + LinesRead(file, st[k])
      BY <2>1, <2>3, <3>1 DEF Starting
    <3>5. Len(s[k]) \in Nat
      BY LenProperties, ElementOfSeq
    <3>6. st[i] = W[k] + 1
      BY <3>2, <3>3, <3>4, <3>5
    <3> QED BY <2>1, <3>1, <3>6
  <2> QED BY <2>2, <2>3
<1>8. \A i \in 1..n : st[i] = W[i - 1] + 1
  <2> HIDE DEF T
  <2>1. 0..n \subseteq T
    BY <1>6, <1>7, Induction
  <2>2. \A i \in 1..n : i \in T /\ i # 0
    BY <2>1
  <2> QED BY <2>2 DEF T
<1>9. PICK read : read = [i \in 1..n |-> QuestionAt(file, st[i])]
  OBVIOUS
<1>10. \A i \in 1..n : read[i] = s[i]
  BY <1>5, <1>8, <1>9
<1>11. s = [i \in 1..n |-> s[i]]
  BY LenProperties
<1>12. PICK P : P = {i \in 1..n : Number(read[i][1]) # 0}
  OBVIOUS
<1>13. 1..n \subseteq P
  <2> SUFFICES ASSUME NEW i \in 1..n PROVE Number(read[i][1]) # 0
    BY <1>12
  <2>1. s[i][1] \in {"1", "3"}
    BY DEF AllQuestions, QuestionLines
  <2> QED BY <1>10, <2>1, NumbersAre
<1>14. Holds(read, n, Seq(LineTexts))
  BY <1>10, ElementOfSeq DEF Holds
<1>15. Selected(read, P, n) = [i \in 1..n |-> read[i]]
  BY <1>13, <1>14, SelectedAll
<1>16. [i \in 1..n |-> read[i]] = s
  BY <1>10, <1>11
<1>17. Read(file, n) = [count |-> n, questions |-> Selected(read, P, n)]
  BY <1>3, <1>9, <1>12 DEF Read
<1> QED BY <1>15, <1>16, <1>17

-----------------------------------------------------------------------------
(* The table of questions.  A row is as its test was offered. *)
TestRow(list) == [pattern_name : {list[k].name : k \in DOMAIN list}, test : FourOptions]
AsTests(rows, tests) ==
    /\ Len(rows) = Len(tests)
    /\ \A i \in 1..Len(tests) : rows[i].test = tests[i]

(* Of the pattern k of a listing the kept ones of its first m tests are stored. *)
Offered(list, k, m) == Selected(list[k].tests, KeptOf(list[k]), m)
RowsOf(table, n) ==
    Selected(table, {k \in DOMAIN table : table[k].pattern_name = n}, Len(table))
StoredTo(list, table, k, m) == AsTests(RowsOf(table, list[k].name), Offered(list, k, m))

(* How many tests of the pattern k the loop has dealt with. *)
Done(k) ==
    IF step = "idle" \/ k < at THEN Len(offered[k].tests)
    ELSE IF step = "tests" /\ k = at THEN row - 1
    ELSE 0

TestsStored ==
    \A k \in DOMAIN offered :
        \/ StoredTo(offered, Pattern_test, k, Done(k))
        \/ /\ cut /\ step = "idle"
           /\ \E m \in 0..Len(offered[k].tests) : StoredTo(offered, Pattern_test, k, m)

StoreInv ==
    /\ Pattern_test \in Seq(TestRow(offered))
    /\ step = "tests" => row \in 1..Len(offered[at].tests) + 1
    /\ TestsStored

LEMMA RowsOfNone ==
  ASSUME NEW list, NEW table, table = <<>>, NEW k
  PROVE  StoredTo(list, table, k, 0)
<1>1. Len(table) = 0 /\ Len(<<>>) = 0
  OBVIOUS
<1>2. RowsOf(table, list[k].name) = <<>>
  BY <1>1, SelectedNone DEF RowsOf
<1>3. Offered(list, k, 0) = <<>>
  BY SelectedNone DEF Offered
<1> QED BY <1>1, <1>2, <1>3 DEF StoredTo, AsTests

LEMMA RowsOfMore ==
  ASSUME NEW T, NEW table \in Seq(T), NEW r \in T, NEW n
  PROVE  RowsOf(Append(table, r), n) = IF r.pattern_name = n THEN Append(RowsOf(table, n), r)
                                       ELSE RowsOf(table, n)
<1>1. PICK l \in Nat : l = Len(table)
  BY LenProperties
<1>2. PICK more : more = Append(table, r)
  OBVIOUS
<1>3. /\ more \in Seq(T) /\ Len(more) = l + 1 /\ more[l + 1] = r
      /\ \A k \in 1..l : more[k] = table[k]
  BY <1>1, <1>2, AppendProperties
<1>4. DOMAIN more = 1..l + 1 /\ DOMAIN table = 1..l
  BY <1>1, <1>3, LenProperties
<1>5. PICK P : P = {k \in 1..l : table[k].pattern_name = n}
  OBVIOUS
<1>6. PICK Q : Q = {k \in 1..l + 1 : more[k].pattern_name = n}
  OBVIOUS
<1>7. Alike(more, Q, table, P, l)
  <2>1. \A k \in 1..l : k \in 1..l + 1
    OBVIOUS
  <2> QED BY <1>3, <1>5, <1>6, <2>1 DEF Alike
<1>8. Selected(more, Q, l) = Selected(table, P, l)
  BY <1>7, SelectedAgrees
<1>9. l + 1 \in 1..l + 1
  OBVIOUS
<1>10. Selected(more, Q, l + 1) = IF l + 1 \in Q THEN Append(Selected(more, Q, l), r)
                                  ELSE Selected(more, Q, l)
  BY <1>3, SelectedNext
<1>11. l + 1 \in Q <=> r.pattern_name = n
  BY <1>3, <1>6, <1>9
<1>12. RowsOf(table, n) = Selected(table, P, l)
  BY <1>1, <1>4, <1>5 DEF RowsOf
<1>13. RowsOf(more, n) = Selected(more, Q, l + 1)
  BY <1>3, <1>4, <1>6 DEF RowsOf
<1> QED BY <1>2, <1>8, <1>10, <1>11, <1>12, <1>13

LEMMA RowsOfType ==
  ASSUME NEW T, NEW table \in Seq(T), NEW n
  PROVE  RowsOf(table, n) \in Seq(T)
<1>1. PICK l \in Nat : l = Len(table)
  BY LenProperties
<1>2. Holds(table, l, T)
  BY <1>1, ElementOfSeq DEF Holds
<1> QED BY <1>1, <1>2, SelectedType DEF RowsOf

LEMMA AsTestsMore ==
  ASSUME NEW T, NEW rows \in Seq(T), NEW r \in T, NEW U, NEW tests \in Seq(U), r.test \in U,
         AsTests(rows, tests)
  PROVE  AsTests(Append(rows, r), Append(tests, r.test))
<1>1. PICK l \in Nat : l = Len(tests) /\ l = Len(rows)
  BY LenProperties DEF AsTests
<1>2. PICK a : a = Append(rows, r)
  OBVIOUS
<1>3. PICK b : b = Append(tests, r.test)
  OBVIOUS
<1>4. Len(a) = l + 1 /\ a[l + 1] = r /\ \A i \in 1..l : a[i] = rows[i]
  BY <1>1, <1>2, AppendProperties
<1>5. Len(b) = l + 1 /\ b[l + 1] = r.test /\ \A i \in 1..l : b[i] = tests[i]
  <2>1. PICK x \in U : x = r.test
    OBVIOUS
  <2>2. /\ Len(Append(tests, x)) = Len(tests) + 1 /\ Append(tests, x)[Len(tests) + 1] = x
        /\ \A i \in 1..Len(tests) : Append(tests, x)[i] = tests[i]
    BY AppendProperties
  <2> QED BY <1>1, <1>3, <2>1, <2>2
<1>6. \A i \in 1..l : rows[i].test = tests[i]
  BY <1>1 DEF AsTests
<1>7. \A i \in 1..l + 1 : i \in 1..l \/ i = l + 1
  OBVIOUS
<1>8. \A i \in 1..l + 1 : a[i].test = b[i]
  BY <1>4, <1>5, <1>6, <1>7
<1> QED BY <1>2, <1>3, <1>4, <1>5, <1>8 DEF AsTests

LEMMA StoreInitial == Init => StoreInv
<1> SUFFICES ASSUME Init PROVE StoreInv
  OBVIOUS
<1>1. DOMAIN offered = {} /\ Pattern_test \in Seq(TestRow(offered)) /\ step # "tests"
  BY DEF Init
<1> QED BY <1>1 DEF StoreInv, TestsStored

LEMMA UpdateStores ==
  ASSUME CatInv, NEW list \in Listing, Update(list)
  PROVE  StoreInv'
<1>1. /\ offered' = list /\ at' = 1 /\ Pattern_test' = <<>>
      /\ step' = IF list = <<>> THEN "idle" ELSE "insert"
      /\ Len(list) \in Nat /\ DOMAIN list = 1 .. Len(list)
  BY ListingAssumption DEF Update, tables
<1>2. Pattern_test' \in Seq(TestRow(offered'))
  BY <1>1
<1>3. ASSUME NEW k \in DOMAIN list PROVE StoredTo(list, Pattern_test', k, Done(k)')
  <2>1. list # <<>> /\ k \in Nat /\ ~ (k < 1)
    BY <1>1
  <2>2. Done(k)' = 0
    BY <1>1, <2>1 DEF Done
  <2> QED BY <1>1, <2>2, RowsOfNone
<1>4. TestsStored'
  BY <1>1, <1>3 DEF TestsStored
<1> QED BY <1>1, <1>2, <1>4 DEF StoreInv

(* One row more, for the pattern the loop is at. *)
LEMMA InsertTestStores ==
  ASSUME CatInv, StoreInv, InsertTest
  PROVE  StoreInv'
<1>1. /\ step = "tests" /\ step' = "tests" /\ row <= Len(current.tests) /\ row' = row + 1
      /\ offered' = offered /\ at' = at /\ cut' = cut
  BY DEF InsertTest
<1>2. /\ at \in DOMAIN offered /\ at \in Nat /\ IsListing(offered)
      /\ DOMAIN offered \subseteq Nat
  BY <1>1 DEF CatInv, CatTypeOK, IsListing
<1>3. PICK tests \in Seq(FourOptions) : tests = offered[at].tests /\ tests = current.tests
  BY <1>2 DEF IsListing, current
<1>4. PICK l \in Nat : l = Len(tests) /\ DOMAIN tests = 1..l
  BY LenProperties
<1>5. row \in 1..l /\ row \in Nat /\ row # 0
  BY <1>1, <1>3, <1>4 DEF StoreInv
<1>6. PICK t \in FourOptions : t = tests[row]
  BY <1>4, <1>5, ElementOfSeq
<1>7. PICK r : r = [pattern_name |-> current.name, test |-> t]
  OBVIOUS
<1>8. r \in TestRow(offered) /\ r.test = t /\ r.pattern_name = offered[at].name
  BY <1>2, <1>7 DEF TestRow, current
<1>9. Pattern_test \in Seq(TestRow(offered))
  BY DEF StoreInv
<1>10. Pattern_test' = IF Kept(current, t) THEN Append(Pattern_test, r) ELSE Pattern_test
  BY <1>3, <1>6, <1>7 DEF InsertTest
<1>11. Pattern_test' \in Seq(TestRow(offered'))
  BY <1>1, <1>8, <1>9, <1>10, AppendProperties
<1>12. row' \in 1..Len(offered'[at'].tests) + 1
  BY <1>1, <1>3, <1>4, <1>5
<1>13. ASSUME NEW k \in DOMAIN offered, k # at
       PROVE  StoredTo(offered, Pattern_test', k, Done(k)')
  <2>1. Done(k)' = Done(k)
    BY <1>1, <1>13 DEF Done
  <2>2. StoredTo(offered, Pattern_test, k, Done(k))
    BY <1>1 DEF StoreInv, TestsStored
  <2>3. r.pattern_name # offered[k].name
    BY <1>2, <1>8, <1>13 DEF IsListing
  <2>4. RowsOf(Append(Pattern_test, r), offered[k].name) = RowsOf(Pattern_test, offered[k].name)
    BY <1>8, <1>9, <2>3, RowsOfMore
  <2>5. RowsOf(Pattern_test', offered[k].name) = RowsOf(Pattern_test, offered[k].name)
    BY <1>10, <2>4
  <2> QED BY <2>1, <2>2, <2>5 DEF StoredTo
<1>14. StoredTo(offered, Pattern_test', at, Done(at)')
  <2>1. Done(at) = row - 1 /\ Done(at)' = row
    BY <1>1, <1>2, <1>5 DEF Done
  <2>2. PICK rows \in Seq(TestRow(offered)) : rows = RowsOf(Pattern_test, offered[at].name)
    BY <1>9, RowsOfType
  <2>3. PICK kept \in Seq(FourOptions) : kept = Offered(offered, at, row - 1)
    <3>1. Holds(tests, row - 1, FourOptions)
      BY <1>4, <1>5, ElementOfSeq DEF Holds
    <3>2. row - 1 \in Nat
      BY <1>5
    <3> QED BY <1>3, <3>1, <3>2, SelectedType DEF Offered
  <2>4. AsTests(rows, kept)
    BY <1>1, <1>2, <2>1, <2>2, <2>3 DEF StoreInv, TestsStored, StoredTo
  <2>5. Offered(offered, at, row) = IF row \in KeptOf(offered[at]) THEN Append(kept, t) ELSE kept
    <3>1. Selected(tests, KeptOf(offered[at]), row)
            = IF row \in KeptOf(offered[at])
              THEN Append(Selected(tests, KeptOf(offered[at]), row - 1), tests[row])
              ELSE Selected(tests, KeptOf(offered[at]), row - 1)
      BY <1>5, SelectedStep
    <3> QED BY <1>3, <1>6, <2>3, <3>1 DEF Offered
  <2>6. row \in KeptOf(offered[at]) <=> Kept(current, t)
    BY <1>3, <1>4, <1>5, <1>6 DEF KeptOf, current
  <2>7. CASE Kept(current, t)
    <3>1. RowsOf(Pattern_test', offered[at].name) = Append(rows, r)
      BY <1>8, <1>9, <1>10, <2>2, <2>7, RowsOfMore
    <3>2. AsTests(Append(rows, r), Append(kept, r.test))
      BY <1>8, <2>4, AsTestsMore
    <3>3. Offered(offered, at, row) = Append(kept, r.test)
      BY <1>8, <2>5, <2>6, <2>7
    <3> QED BY <2>1, <3>1, <3>2, <3>3 DEF StoredTo
  <2>8. CASE ~Kept(current, t)
    <3>1. RowsOf(Pattern_test', offered[at].name) = rows
      BY <1>10, <2>2, <2>8
    <3>2. Offered(offered, at, row) = kept
      BY <2>5, <2>6, <2>8
    <3> QED BY <2>1, <2>4, <3>1, <3>2 DEF StoredTo
  <2> QED BY <2>7, <2>8
<1>15. TestsStored'
  BY <1>1, <1>13, <1>14 DEF TestsStored
<1> QED BY <1>11, <1>12, <1>15 DEF StoreInv

(* The other steps store nothing; the loop goes on or is cut. *)
LEMMA TheRestStores ==
  ASSUME CatInv, StoreInv,
         \/ InsertPattern \/ SaveImage \/ NextPattern \/ Die \/ UNCHANGED vars
         \/ \E i \in DOMAIN Pattern : More(Pattern[i]) \/ ToTest(Pattern[i].name)
  PROVE  StoreInv'
<1>1. Pattern_test' = Pattern_test /\ offered' = offered
  BY DEF InsertPattern, SaveImage, NextPattern, Die, More, ToTest, vars, tables
<1>2. /\ DOMAIN offered = 1..Len(offered) /\ Len(offered) \in Nat
      /\ step # "idle" => at \in DOMAIN offered
      /\ \A k \in DOMAIN offered : Len(offered[k].tests) \in Nat
  BY LenProperties DEF CatInv, CatTypeOK, IsListing
<1>3. \/ step' = step /\ at' = at /\ row' = row /\ (cut => cut')
      \/ step = "insert" /\ step' = "image" /\ at' = at
      \/ step = "image" /\ step' = "tests" /\ at' = at /\ row' = 1
      \/ /\ step = "tests" /\ row > Len(offered[at].tests) /\ at' = at + 1
         /\ step' = IF at = Len(offered) THEN "idle" ELSE "insert"
      \/ step # "idle" /\ step' = "idle" /\ cut'
  <2>1. CASE Die
    <3>1. step' = "idle" /\ at' = at /\ row' = row
      BY <2>1 DEF Die
    <3>2. (cut => cut') /\ (step # "idle" => cut')
      BY <2>1, Zenon DEF Die
    <3> QED BY <3>1, <3>2
  <2>2. CASE InsertPattern \/ SaveImage \/ NextPattern
    BY <2>2 DEF InsertPattern, SaveImage, NextPattern, current
  <2>3. CASE UNCHANGED vars \/ \E i \in DOMAIN Pattern : More(Pattern[i]) \/ ToTest(Pattern[i].name)
    BY <2>3 DEF More, ToTest, vars
  <2> QED BY <2>1, <2>2, <2>3
<1>4. step = "tests" => row \in 1..Len(offered[at].tests) + 1
  BY DEF StoreInv
<1>5. step' = "tests" => row' \in 1..Len(offered'[at'].tests) + 1
  BY <1>1, <1>2, <1>3, <1>4
<1>6. ASSUME NEW k \in DOMAIN offered
      PROVE  \/ StoredTo(offered, Pattern_test, k, Done(k)')
             \/ cut' /\ step' = "idle" /\ \E m \in 0..Len(offered[k].tests) :
                                              StoredTo(offered, Pattern_test, k, m)
  <2>1. \/ StoredTo(offered, Pattern_test, k, Done(k))
        \/ cut /\ step = "idle" /\ \E m \in 0..Len(offered[k].tests) :
                                       StoredTo(offered, Pattern_test, k, m)
    BY DEF StoreInv, TestsStored
  <2>2. k \in 1..Len(offered)
    BY <1>2
  <2>3. CASE step' = step /\ at' = at /\ row' = row /\ (cut => cut')
    <3>1. Done(k)' = Done(k)
      BY <1>1, <2>3 DEF Done
    <3> QED BY <2>1, <2>3, <3>1
  <2>4. CASE \/ step = "insert" /\ step' = "image" /\ at' = at
             \/ step = "image" /\ step' = "tests" /\ at' = at /\ row' = 1
    <3>1. Done(k)' = Done(k)
      BY <1>1, <2>4 DEF Done
    <3> QED BY <2>1, <2>4, <3>1
  <2>5. CASE /\ step = "tests" /\ row > Len(offered[at].tests) /\ at' = at + 1
             /\ step' = IF at = Len(offered) THEN "idle" ELSE "insert"
    <3>1. row - 1 = Len(offered[at].tests) /\ at \in Nat
      BY <1>2, <1>4, <2>5
    <3>2. Done(k)' = Done(k)
      <4>1. CASE k < at
        <5>1. k < at'
          BY <2>2, <2>5, <3>1, <4>1
        <5> QED BY <1>1, <4>1, <5>1 DEF Done
      <4>2. CASE k = at
        <5>1. k < at' /\ ~ (k < at)
          BY <2>2, <2>5, <3>1, <4>2
        <5> QED BY <1>1, <2>5, <3>1, <4>2, <5>1 DEF Done
      <4>3. CASE k > at
        <5>1. ~ (k < at') /\ ~ (k < at) /\ k # at /\ at # Len(offered)
          <6>1. Len(offered) \in Nat
            BY <1>2
          <6>2. PICK n \in Nat : n = Len(offered)
            BY <6>1
          <6>3. PICK a \in Nat : a = at
            BY <3>1
          <6>4. k \in Nat /\ k <= n
            BY <2>2, <6>2
          <6>5. k > a
            BY <4>3, <6>3
          <6>6. at' = a + 1
            BY <2>5, <6>3
          <6>7. ~ (k < a + 1) /\ ~ (k < a) /\ k # a /\ a # n
            BY <6>4, <6>5
          <6> QED BY <6>2, <6>3, <6>6, <6>7
        <5>2. step' = "insert"
          BY <2>5, <5>1
        <5> QED BY <1>1, <2>5, <5>1, <5>2 DEF Done
      <4> QED BY <2>2, <3>1, <4>1, <4>2, <4>3
    <3> QED BY <2>1, <2>5, <3>2
  <2>6. CASE step # "idle" /\ step' = "idle" /\ cut'
    <3>1. Done(k) \in 0..Len(offered[k].tests)
      BY <1>2, <1>4, <2>6 DEF Done
    <3> QED BY <2>1, <2>6, <3>1
  <2> QED BY <1>3, <2>3, <2>4, <2>5, <2>6
<1>7. TestsStored'
  BY <1>1, <1>6 DEF TestsStored
<1> QED BY <1>1, <1>5, <1>7 DEF StoreInv

-----------------------------------------------------------------------------
(* A test is opened with what is stored of its pattern. *)
KeptTest == {t \in FourOptions : t.type \in {1, 2}}
Asked(kept) == [i \in DOMAIN kept |-> Lines(kept[i])]

AsAsked(read, kept) ==
    (\A i \in DOMAIN kept : SingleLines(kept[i])) =>
        /\ read.count = Len(read.questions)
        /\ IsPrefix(read.questions, Asked(kept))
        /\ ~cut => read.questions = Asked(kept)

LEMMA OfferedAre ==
  ASSUME NEW list, IsListing(list), NEW k \in DOMAIN list, NEW m \in 0..Len(list[k].tests)
  PROVE  /\ Offered(list, k, m) \in Seq(KeptTest)
         /\ Begins(Offered(list, k, m), Offered(list, k, Len(list[k].tests)))
<1>1. PICK tests \in Seq(FourOptions) : tests = list[k].tests
  BY DEF IsListing
<1>2. PICK l \in Nat : l = Len(tests) /\ DOMAIN tests = 1..l
  BY LenProperties
<1>3. m \in Nat /\ m \in 0..l
  BY <1>1, <1>2
<1>4. HoldsAt(tests, KeptOf(list[k]), m, KeptTest)
  <2> SUFFICES ASSUME NEW j \in 1..m, j \in KeptOf(list[k]) PROVE tests[j] \in KeptTest
    BY DEF HoldsAt
  <2>1. tests[j] \in FourOptions
    BY <1>2, <1>3, ElementOfSeq
  <2>2. tests[j].type \in {1, 2}
    BY <1>1 DEF KeptOf, Kept
  <2> QED BY <2>1, <2>2 DEF KeptTest
<1>5. Holds(tests, l, FourOptions)
  BY <1>2, ElementOfSeq DEF Holds
<1>6. Selected(tests, KeptOf(list[k]), m) \in Seq(KeptTest)
  BY <1>3, <1>4, SelectedFrom
<1>7. Begins(Selected(tests, KeptOf(list[k]), m), Selected(tests, KeptOf(list[k]), l))
  BY <1>3, <1>5, SelectedPrefix
<1> QED BY <1>1, <1>2, <1>6, <1>7 DEF Offered

LEMMA LinesOfKept ==
  ASSUME NEW kept \in Seq(KeptTest), NEW n \in Nat, n = Len(kept),
         \A i \in DOMAIN kept : SingleLines(kept[i])
  PROVE  /\ Asked(kept) \in Seq(Seq(LineTexts)) /\ Len(Asked(kept)) = n
         /\ AllQuestions(Asked(kept), n)
<1>1. DOMAIN kept = 1..n /\ \A i \in 1..n : kept[i] \in KeptTest
  BY LenProperties, ElementOfSeq
<1>2. \A i \in 1..n : QuestionLines(Lines(kept[i]))
  <2> SUFFICES ASSUME NEW i \in 1..n PROVE QuestionLines(Lines(kept[i]))
    OBVIOUS
  <2>1. PICK t \in FourOptions : t = kept[i] /\ t.type \in {1, 2}
    BY <1>1 DEF KeptTest
  <2>2. SingleLines(t)
    BY <1>1, <2>1
  <2> QED BY <2>1, <2>2, LinesAre
<1>3. PICK a : a = Asked(kept)
  OBVIOUS
<1>4. a = [i \in 1..n |-> Lines(kept[i])]
  BY <1>1, <1>3 DEF Asked
<1>5. \A i \in 1..n : a[i] = Lines(kept[i]) /\ a[i] \in Seq(LineTexts)
  BY <1>2, <1>4 DEF QuestionLines
<1>6. a \in Seq(Seq(LineTexts)) /\ Len(a) = n
  BY <1>4, <1>5
<1>7. AllQuestions(a, n)
  BY <1>2, <1>5 DEF AllQuestions
<1> QED BY <1>3, <1>6, <1>7

LEMMA OpenedIs ==
  ASSUME NEW kept \in Seq(KeptTest), NEW some \in Seq(KeptTest), Begins(some, kept),
         ~cut => some = kept,
         NEW rows, Len(rows) \in Nat, DOMAIN rows = 1..Len(rows), AsTests(rows, some)
  PROVE  AsAsked(Read(FlattenSeq([i \in DOMAIN rows |-> Lines(rows[i].test)]), Len(rows)), kept)
<1> SUFFICES ASSUME \A i \in DOMAIN kept : SingleLines(kept[i])
             PROVE  LET read == Read(FlattenSeq([i \in DOMAIN rows |-> Lines(rows[i].test)]), Len(rows))
                    IN  /\ read.count = Len(read.questions)
                        /\ IsPrefix(read.questions, Asked(kept))
                        /\ ~cut => read.questions = Asked(kept)
  BY DEF AsAsked
<1>1. PICK n \in Nat : n = Len(some) /\ DOMAIN some = 1..n
  BY LenProperties
<1>2. PICK l \in Nat : l = Len(kept) /\ DOMAIN kept = 1..l
  BY LenProperties
<1>3. n <= l /\ \A i \in 1..n : kept[i] = some[i]
  BY <1>1, <1>2 DEF Begins
<1>4. \A i \in DOMAIN some : SingleLines(some[i])
  BY <1>1, <1>2, <1>3
<1>5. PICK a : a = Asked(some)
  OBVIOUS
<1>6. a \in Seq(Seq(LineTexts)) /\ Len(a) = n /\ AllQuestions(a, n)
  BY <1>1, <1>4, <1>5, LinesOfKept
<1>7. PICK b : b = Asked(kept)
  OBVIOUS
<1>8. b \in Seq(Seq(LineTexts)) /\ Len(b) = l
  BY <1>2, <1>7, LinesOfKept
<1>9. (\A i \in 1..n : a[i] = Lines(some[i])) /\ (\A i \in 1..l : b[i] = Lines(kept[i]))
  BY <1>1, <1>2, <1>5, <1>7 DEF Asked
<1>10. Begins(a, b)
  <2>1. \A i \in 1..n : i \in 1..l
    BY <1>3
  <2> QED BY <1>3, <1>6, <1>8, <1>9, <2>1 DEF Begins
<1>11. IsPrefix(a, b)
  BY <1>6, <1>8, <1>10, BeginsPrefix
<1>12. [i \in DOMAIN rows |-> Lines(rows[i].test)] = a /\ Len(rows) = n
  <2>1. Len(rows) = n /\ \A i \in 1..n : rows[i].test = some[i]
    BY <1>1 DEF AsTests
  <2>2. a = [i \in 1..n |-> Lines(some[i])]
    BY <1>1, <1>5 DEF Asked
  <2> QED BY <2>1, <2>2
<1>13. PICK read : read = Read(FlattenSeq(a), n)
  OBVIOUS
<1>14. read.count = n /\ read.questions = a
  <2>1. PICK file : file = FlattenSeq(a)
    OBVIOUS
  <2>2. Read(file, n).count = n /\ Read(file, n).questions = a
    BY <1>6, <2>1, ReadIs
  <2> QED BY <1>13, <2>1, <2>2
<1>15. ~cut => a = b
  BY <1>5, <1>7
<1> QED BY <1>6, <1>7, <1>11, <1>12, <1>13, <1>14, <1>15

LEMMA OpensServers ==
  ASSUME CatInv, StoreInv, NEW i \in DOMAIN Pattern, ToTest(Pattern[i].name)
  PROVE  QuestionsAreServers'
<1> DEFINE n == Pattern[i].name
           k == PosIn(offered, n)
           l == Len(offered[k].tests)
<1>1. /\ step = "idle" /\ offered' = offered /\ cut' = cut
      /\ test' = [name |-> n, read |-> Read(TmpTxt(n), Len(Rows(n)))]
  BY DEF ToTest
<1>2. IsListing(offered) /\ k \in DOMAIN offered /\ offered[k].name = n
  <2>1. Pattern[i] \in Row(offered)
    BY ElementOfSeq, LenProperties DEF CatInv, CatTypeOK
  <2> QED BY <2>1, PosOf DEF CatInv, CatTypeOK
<1>3. l \in Nat
  BY <1>2, LenProperties DEF IsListing
<1>4. Rows(n) = RowsOf(Pattern_test, n)
  BY DEF Rows, RowsAt, RowsOf
<1>5. TmpTxt(n) = FlattenSeq([j \in DOMAIN Rows(n) |-> Lines(Rows(n)[j].test)])
  BY DEF TmpTxt
<1> HIDE DEF k, n
<1>6. PICK m \in 0..l : StoredTo(offered, Pattern_test, k, m) /\ (~cut => m = l)
  <2>1. \/ StoredTo(offered, Pattern_test, k, Done(k))
        \/ cut /\ \E m \in 0..l : StoredTo(offered, Pattern_test, k, m)
    BY <1>2 DEF StoreInv, TestsStored
  <2>2. Done(k) = l /\ l \in 0..l
    BY <1>1, <1>3 DEF Done
  <2> QED BY <2>1, <2>2
<1>7. PICK rows : rows = Rows(n)
  OBVIOUS
<1>8. rows \in Seq(TestRow(offered)) /\ rows = RowsOf(Pattern_test, offered[k].name)
  BY <1>2, <1>4, <1>7, RowsOfType DEF StoreInv
<1>9. Len(rows) \in Nat /\ DOMAIN rows = 1..Len(rows)
  BY <1>8, LenProperties
<1>10. PICK some : some = Offered(offered, k, m)
  OBVIOUS
<1>11. PICK kept : kept = Offered(offered, k, l)
  OBVIOUS
<1>12. some \in Seq(KeptTest) /\ kept \in Seq(KeptTest) /\ Begins(some, kept) /\ (~cut => some = kept)
  <2>1. l \in 0..l
    BY <1>3
  <2> QED BY <1>2, <1>6, <1>10, <1>11, <2>1, OfferedAre
<1>13. AsTests(rows, some)
  BY <1>6, <1>8, <1>10 DEF StoredTo
<1>14. AsAsked(Read(FlattenSeq([j \in DOMAIN rows |-> Lines(rows[j].test)]), Len(rows)), kept)
  BY <1>9, <1>12, <1>13, OpenedIs
<1>15. test'.name = n /\ AsAsked(test'.read, kept)
  BY <1>1, <1>5, <1>7, <1>14
<1>16. Offer(test.name)' = k
  BY <1>1, <1>15 DEF Offer, PosIn, k
<1>17. kept = Selected(offered[k].tests, KeptOf(offered[k]), Len(offered[k].tests))
  BY <1>11 DEF Offered
<1> QED BY <1>1, <1>15, <1>16, <1>17 DEF QuestionsAreServers, AsAsked, Asked

(* QuestionsAreServers of the values of the three variables it is about. *)
ServersQuestions(list, opened, died) ==
    opened # Nothing =>
        LET p     == list[CHOOSE i \in DOMAIN list : list[i].name = opened.name]
            kept  == Selected(p.tests, KeptOf(p), Len(p.tests))
            asked == [i \in DOMAIN kept |-> Lines(kept[i])]
        IN  (\A i \in DOMAIN kept : SingleLines(kept[i])) =>
                /\ opened.read.count = Len(opened.read.questions)
                /\ IsPrefix(opened.read.questions, asked)
                /\ ~died => opened.read.questions = asked

LEMMA TestKeeps ==
  ASSUME CatInv, StoreInv, QuestionsAreServers, [Next]_vars
  PROVE  QuestionsAreServers'
<1>1. CASE test' = Nothing
  BY <1>1 DEF QuestionsAreServers
<1>2. CASE test' = test /\ offered' = offered /\ cut' = cut
  <2>1. QuestionsAreServers <=> ServersQuestions(offered, test, cut)
    BY DEF QuestionsAreServers, ServersQuestions, Offer
  <2>2. QuestionsAreServers' <=> ServersQuestions(offered', test', cut')
    BY DEF QuestionsAreServers, ServersQuestions, Offer
  <2> QED BY <1>2, <2>1, <2>2
<1>3. CASE \E i \in DOMAIN Pattern : ToTest(Pattern[i].name)
  BY <1>3, OpensServers
<1> QED
  BY <1>1, <1>2, <1>3 DEF Next, vars, tables, Update, InsertPattern, SaveImage, InsertTest,
     NextPattern, Die, More

(* A test that is opened asks the questions the server has for its pattern, as
   far as the client can store them, in order and each with its own answers; the
   first ones of them after a death during the update: for every listing, any
   number of questions and updates, if no question has a text of several lines. *)
THEOREM QuestionsAlwaysServers == Spec => []QuestionsAreServers
<1>1. Init => CatInv /\ StoreInv /\ QuestionsAreServers
  BY CatInitial, StoreInitial DEF Init, QuestionsAreServers
<1>2. CatInv /\ StoreInv /\ QuestionsAreServers /\ [Next]_vars
        => CatInv' /\ StoreInv' /\ QuestionsAreServers'
  <2>1. CatInv /\ [Next]_vars => CatInv'
    BY UpdateKeeps, InsertKeeps, SaveKeeps, TheRestKeeps DEF Next
  <2>2. CatInv /\ StoreInv /\ [Next]_vars => StoreInv'
    BY UpdateStores, InsertTestStores, TheRestStores DEF Next
  <2> QED BY <2>1, <2>2, TestKeeps
<1> QED
  BY <1>1, <1>2, PTL DEF Spec
=============================================================================
