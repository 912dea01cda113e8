------------------------------ MODULE Matching ------------------------------
(***************************************************************************)
(* How a lost item and a found item find each other: matching.service.js,  *)
(* run when an item is posted and again when the analysis of its images    *)
(* has changed it (image-processor.service.js).  The two run side by side. *)
(*                                                                         *)
(* Texts are sets of words: KeyWord and PurseWord are in the dictionaries  *)
(* of both files, other words in none.  Of the dictionaries' types, keys,  *)
(* wallet, student_card and the vague ones are modelled; of the provider,  *)
(* only what it reports.  Stop words, scores beyond the threshold, and the *)
(* caps of 200 candidates and 5 matches are left out.                      *)
(***************************************************************************)
EXTENDS Integers, FiniteSets

CONSTANTS KeyWord, PurseWord,       \* "chìa khóa" and "ví"
          Titles, Descriptions, Tags, Places, \* sets of sets of words
          Categories

VARIABLES items,     \* the lost one and the found one, as stored
          posting,   \* item -> "new", "created" (not matched yet) or "posted"
          analysing,  \* item -> "none", "queued", "running", "saved" or "done"
          published, \* lostfound.match was published for the two
          missed     \* history: a search that had found the other failed, or its event was lost

matchingVars == <<items, posting, analysing, published, missed>>

Sides == {"LOST", "FOUND"}
Opposite(i) == CHOOSE j \in Sides : j # i
NoType == ""
ItemTypes == {"keys", "wallet", "student_card"}
DetectedTypes == ItemTypes \cup {"accessory", "document", "unknown"}
AllCategories == {"KEYS", "ACCESSORIES", "DOCUMENTS", "CLOTHING", "OTHER"}

\* Something can be posted.
ASSUME MatchingAssumption ==
  /\ Titles # {} /\ Descriptions # {} /\ Tags # {} /\ Places # {} /\ Categories # {}
  /\ Categories \subseteq AllCategories

MatchingTypeOK ==
  /\ \A i \in Sides : /\ items[i].category \in AllCategories
                      /\ items[i].detectedType \in DetectedTypes \cup {NoType}
  /\ posting \in [Sides -> {"new", "created", "posted"}]
  /\ analysing \in [Sides -> {"none", "queued", "running", "saved", "done"}]
  /\ published \in BOOLEAN /\ missed \in BOOLEAN

NewPost ==
  [title : Titles, description : Descriptions, tags : Tags, location : Places, category : Categories,
   detectedType : {NoType}, images : BOOLEAN]

-----------------------------------------------------------------------------
\* matching.service.js.

\* A type is a word of the texts like any other.
WordsOf(t) == IF t = NoType THEN {} ELSE IF t = "student_card" THEN {"student", "card"} ELSE {t}
TagWords(item) == UNION {WordsOf(t) : t \in item.tags}
KeywordFields(item) ==
  <<item.title, item.description, WordsOf(item.detectedType), TagWords(item)>>
ItemKeywords(item) == UNION {KeywordFields(item)[f] : f \in 1..4}

\* A word counts once for every field of the source that holds it.
SharedKeywords(source, candidate) ==
  Cardinality({hit \in (1..4) \X ItemKeywords(candidate) : hit[2] \in KeywordFields(source)[hit[1]]})

RuleWords == [keys |-> {KeyWord, "keys"}, wallet |-> {PurseWord, "wallet"}, student_card |-> {"student", "card"}]
RuleOf(category) ==
  CASE category = "KEYS" -> "keys" [] category = "ACCESSORIES" -> "wallet"
    [] category = "DOCUMENTS" -> "student_card" [] OTHER -> NoType
RuleOrder == <<"keys", "wallet", "student_card">>
FirstOf(order, S) ==
  IF \E k \in DOMAIN order : order[k] \in S
  THEN order[CHOOSE k \in DOMAIN order : order[k] \in S /\ \A j \in 1..(k - 1) : order[j] \notin S]
  ELSE NoType

\* By what the analysis found, else by the words, else by the category.
InferItemType(item) ==
  LET named == {t \in ItemTypes : RuleWords[t] \cap ItemKeywords(item) # {}}
      byWords == FirstOf(RuleOrder, named)
  IN  IF item.detectedType \in ItemTypes THEN item.detectedType
      ELSE IF byWords # NoType THEN byWords ELSE RuleOf(item.category)

CategoriesCompatible(s, c) == s.category = c.category \/ "OTHER" \in {s.category, c.category}
DetectedTypesCompatible(s, c) ==
  s.detectedType = c.detectedType \/ {s.detectedType, c.detectedType} \cap {NoType, "unknown"} # {}
InferredTypesCompatible(s, c) ==
  InferItemType(s) = InferItemType(c) \/ NoType \in {InferItemType(s), InferItemType(c)}

\* Six times the similarity: no union of words has more than three.
Jaccard(A, B) == IF A \cup B = {} THEN 0 ELSE (6 * Cardinality(A \cap B)) \div Cardinality(A \cup B)

\* What two items share makes a match from half of the weights up.
EnoughShared(s, c) ==
  \/ SharedKeywords(s, c) >= 2
  \/ SharedKeywords(s, c) = 1 /\ \/ s.category = c.category /\ s.category # "OTHER"
                                 \/ InferItemType(s) = InferItemType(c) /\ InferItemType(s) # NoType
CalculateMatchScore(s, c) ==
  LET tagged == s.tags # {} /\ c.tags # {}
      sameType == InferItemType(s) = InferItemType(c) /\ InferItemType(s) # NoType
      located == s.location # {} /\ c.location # {}
      score == 35 * Jaccard(s.title, c.title) + 25 * Jaccard(s.description, c.description)
               + (IF s.category = c.category THEN 20 * 6 ELSE 0)
               + (IF tagged THEN 15 * Jaccard(s.tags, c.tags) ELSE 0)
               + (IF sameType THEN 20 * 6 ELSE 0)
               + (IF located THEN 5 * Jaccard(s.location, c.location) ELSE 0)
      weights == 35 + 25 + 20 + (IF tagged THEN 15 ELSE 0) + (IF sameType THEN 20 ELSE 0)
                 + (IF located THEN 5 ELSE 0)
  IN  [score |-> score, weights |-> 6 * weights]
Compatible(s, c) ==
  CategoriesCompatible(s, c) /\ DetectedTypesCompatible(s, c) /\ InferredTypesCompatible(s, c)
Reaches(s, c) ==
  /\ Compatible(s, c) /\ EnoughShared(s, c)
  /\ 2 * CalculateMatchScore(s, c).score >= CalculateMatchScore(s, c).weights

\* findMatches reads the candidates of the source's category, or of none.
Candidate(s, c) == s.category # "OTHER" => c.category \in {s.category, "OTHER"}
FindMatches(i) ==
  /\ posting[Opposite(i)] # "new"
  /\ Candidate(items[i], items[Opposite(i)])
  /\ Reaches(items[i], items[Opposite(i)])

-----------------------------------------------------------------------------
\* image-processor.service.js.

\* The dictionary of titles knows purses before keys.
FromWords(words) ==
  IF PurseWord \in words THEN "wallet" ELSE IF KeyWord \in words THEN "keys" ELSE NoType
FromCategory(category) ==
  CASE category = "KEYS" -> "keys" [] category = "ACCESSORIES" -> "accessory"
    [] category = "DOCUMENTS" -> "document" [] OTHER -> NoType

\* What the provider reports: nothing, a text, a text with a student id, a card.
Reports == {"fails", "text", "numbered", "student_card"}

\* The title, then the provider, then the tags, then the category.
HybridAnalyze(item, ocr) ==
  CASE FromWords(item.title \cup item.description) # NoType -> FromWords(item.title \cup item.description)
    [] FromWords(item.title \cup item.description) = NoType /\ ocr = "student_card" -> "student_card"
    [] FromWords(item.title \cup item.description) = NoType /\ ocr = "numbered" -> "document"
    [] OTHER -> IF FromWords(item.tags) # NoType THEN FromWords(item.tags)
                ELSE IF FromCategory(item.category) # NoType THEN FromCategory(item.category)
                ELSE IF ocr = "text" THEN "document" ELSE "unknown"

InferCategory ==
  [keys |-> "KEYS", wallet |-> "ACCESSORIES", student_card |-> "DOCUMENTS", document |-> "DOCUMENTS",
   accessory |-> "CLOTHING", unknown |-> "OTHER"]

\* What was left open is filled in.
Analysed(item, type) ==
  [item EXCEPT !.detectedType = type,
               !.category = IF @ = "OTHER" THEN InferCategory[type] ELSE @,
               !.tags = IF @ = {} THEN {type} ELSE @]

-----------------------------------------------------------------------------
MatchingInitWith(posts) ==
  /\ items \in [Sides -> posts]
  /\ posting = [i \in Sides |-> "new"] /\ analysing = [i \in Sides |-> "none"]
  /\ published = FALSE /\ missed = FALSE

\* createItem stores, queues the analysis, and only then matches.
CreateItem(i) ==
  /\ posting[i] = "new"
  /\ posting' = [posting EXCEPT ![i] = "created"]
  /\ analysing' = [analysing EXCEPT ![i] = IF items[i].images THEN "queued" ELSE "none"]
  /\ UNCHANGED <<items, published, missed>>

\* What it finds is published.  A search that fails finds nothing, an event that is
\* not taken is only logged, and a process that stops does neither.
Looks(i) ==
  \/ published' = (published \/ FindMatches(i)) /\ UNCHANGED missed
  \/ missed' = (missed \/ FindMatches(i)) /\ UNCHANGED published

AutoMatchOnCreate(i) ==
  /\ posting[i] = "created"
  /\ posting' = [posting EXCEPT ![i] = "posted"]
  /\ Looks(i)
  /\ UNCHANGED <<items, analysing>>

AnalyzeItem(i) ==
  /\ analysing[i] = "queued"
  /\ analysing' = [analysing EXCEPT ![i] = "running"]
  /\ UNCHANGED <<items, posting, published, missed>>

SaveAnalysis(i) ==
  /\ analysing[i] = "running"
  /\ \E ocr \in Reports :
       items' = [items EXCEPT ![i] = Analysed(items[i], HybridAnalyze(items[i], ocr))]
  /\ analysing' = [analysing EXCEPT ![i] = "saved"]
  /\ UNCHANGED <<posting, published, missed>>

AnalysisFails(i) ==
  /\ analysing[i] = "running"
  /\ analysing' = [analysing EXCEPT ![i] = "done"]
  /\ UNCHANGED <<items, posting, published, missed>>

MatchAnalysed_Skipped(i) ==
  /\ analysing[i] = "saved"
  /\ analysing' = [analysing EXCEPT ![i] = "done"]
  /\ UNCHANGED <<items, posting, published, missed>>
MatchAnalysed(i) ==
  /\ analysing[i] = "saved"
  /\ analysing' = [analysing EXCEPT ![i] = "done"]
  /\ Looks(i)
  /\ UNCHANGED <<items, posting>>

MatchingNext ==
  \E i \in Sides : \/ CreateItem(i) \/ AutoMatchOnCreate(i)
                   \/ AnalyzeItem(i) \/ SaveAnalysis(i) \/ AnalysisFails(i) \/ MatchAnalysed(i)

-----------------------------------------------------------------------------
\* Two items that find each other once both are posted and analysed were
\* published as a match, whatever the order of postings and analyses, unless a
\* search that had found one failed or its event was lost: nobody looks again
\* (lostfound.controller.js, BUG FIX #7).
NoMatchIsMissed ==
  (\A i \in Sides : posting[i] = "posted" /\ analysing[i] \in {"none", "done"})
    => ((\A i \in Sides : FindMatches(i)) => published \/ missed)
=============================================================================
