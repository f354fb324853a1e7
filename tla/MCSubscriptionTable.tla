------------------------ MODULE MCSubscriptionTable ------------------------
(***************************************************************************)
(* SubscriptionTable over the names of Files/CDList.txt and two more.  The *)
(* numbers MCMD5ID are small, but with Word = 2^16 they select the slots   *)
(* that the MD5 of these very names selects with a 64-bit word: the last   *)
(* product of "/sports" overflows, and "/news" and "/sports/basketball/nba"*)
(* have the same slots.                                                    *)
(***************************************************************************)
EXTENDS SubscriptionTable

MCCD == {"/sports", "/sports/basketball", "/sports/football",
         "/sports/basketball/nba", "/news"}

MCPrefixes ==
  [c \in MCCD |->
     CASE c = "/sports/basketball"     -> {c, "/sports"}
       [] c = "/sports/football"       -> {c, "/sports"}
       [] c = "/sports/basketball/nba" -> {c, "/sports/basketball", "/sports"}
       [] OTHER                        -> {c}]

MCLength == [c \in MCCD |-> Len(c)]

MCMD5ID ==
  [c \in MCCD |->
     CASE c = "/sports"                -> 865
       [] c = "/sports/basketball"     -> 3
       [] c = "/sports/football"       -> 14
       [] c = "/sports/basketball/nba" -> 11
       [] c = "/news"                  -> 26]

MCHashCode == <<11, 22, 33, 44, 55, 66, 77>>

=============================================================================
