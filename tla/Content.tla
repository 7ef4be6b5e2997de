------------------------------- MODULE Content -------------------------------
(***************************************************************************)
(* The content tree: directories that are loaded, lookups among regex      *)
(* contents, and one static content that is replaced while a client caches *)
(* it.  They are three questions about contents that do not touch each     *)
(* other, so a behaviour follows one; w1 .. w9 are its variables.          *)
(***************************************************************************)
EXTENDS Naturals, Sequences

CONSTANTS Shared, SharedPaths, MaxAdds, Regexes, RegexPaths, Requests, \* DirectoryContent's
          Trees, Omits, Public, IndexFiles,
          LookupTrees,                                                 \* those of Trees to look up in
          Contents, Size, MaxTime, Nothing                             \* StaticContent's

VARIABLES subject, w1, w2, w3, w4, w5, w6, w7, w8, w9

contentVars == <<subject, w1, w2, w3, w4, w5, w6, w7, w8, w9>>

Tree == INSTANCE DirectoryContent WITH
  tree <- w1, omit <- w2, contentMap <- w3, regexMap <- w4, managed <- w5, frames <- w6,
  state <- w7, path <- w8, found <- w9

Static == INSTANCE StaticContent WITH
  now <- w1, encoded <- w2, e_tag <- w3, last_modified <- w4, cache <- w5, answer <- w6,
  sameSecond <- w7

ASSUME ContentAssumption ==
  LookupTrees \subseteq Trees /\ Tree!DirectoryAssumption /\ Static!StaticAssumption

\* A directory is loaded after what the program has added, or requests are made of one that regex
\* contents are added to.
ContentInit == \/ subject = "load" /\ Tree!Init
               \/ subject = "lookup" /\ Tree!Init /\ w1 \in LookupTrees
               \/ subject = "static" /\ Static!Init /\ w8 = 0 /\ w9 = 0

ContentNext == \/ subject = "load" /\ (Tree!Add \/ Tree!Loads) /\ UNCHANGED subject
               \/ subject = "lookup" /\ (Tree!Loads \/ Tree!Asks) /\ UNCHANGED subject
               \/ subject = "static" /\ Static!Next /\ UNCHANGED <<subject, w8, w9>>

ContentSpec == ContentInit /\ [][ContentNext]_contentVars
-----------------------------------------------------------------------------
\* A directory is loaded as it is, or the load throws and leaves nothing dangling: the properties
\* of DirectoryContent.
TreeLoaded == subject = "load" =>
  /\ Tree!TypeOK /\ Tree!NoDangling /\ Tree!LoadedAsClaimed
  /\ Tree!ThrownForDuplicates /\ Tree!RedirectsLand

\* Which regex content a request finds, and when it finds none although one would match: the
\* properties of DirectoryContent.
RegexFound == [][subject = "lookup" => Tree!FirstRegexFound' /\ Tree!HiddenByLonger]_contentVars

\* A client is told that its copy is good only if it is, and gets the smallest content it takes:
\* the properties of StaticContent.
ServedAsStored == [][subject = "static" =>
  Static!TypeOK' /\ Static!NotModifiedIsTrue /\ Static!SmallestAccepted]_contentVars
=============================================================================
