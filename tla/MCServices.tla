------------------------------ MODULE MCServices ------------------------------
(* The background services share the clock and nothing else; a behaviour   *)
(* is about one of them.                                                   *)
EXTENDS MarketTables, HistoryCaches, FeedWatch, WarmUp

VARIABLE exercised

MCDexes == <<"main", "xyz">>
MCBase  == [f \in Feeds |-> 1]
MCCap   == [f \in Feeds |-> 4]

serviceVars == <<exercised, now, failures, cacheVars, tableVars, historyVars, feedVars, warmUpVars>>

Horizon == [mids |-> 4, markets |-> 7, funding |-> 7, pages |-> 5, files |-> 5,
            feeds |-> 7, news |-> 6, capital |-> 4]

Init ==
  /\ exercised \in DOMAIN Horizon
  /\ RequestsInit /\ CachesInit /\ TablesInit /\ HistoryInit /\ FeedsInit /\ WarmUpInit

Next ==
  /\ UNCHANGED exercised
  /\ \/ /\ exercised = "mids" /\ MidsNext
        /\ UNCHANGED <<tableVars, historyVars, feedVars, warmUpVars>>
     \/ /\ exercised = "markets" /\ MarketsNext
        /\ UNCHANGED <<cacheVars, historyVars, feedVars, warmUpVars>>
     \/ /\ exercised = "funding" /\ FundingNext
        /\ UNCHANGED <<cacheVars, historyVars, feedVars, warmUpVars>>
     \/ /\ exercised = "pages" /\ PagesNext
        /\ UNCHANGED <<cacheVars, tableVars, feedVars, warmUpVars>>
     \/ /\ exercised = "files" /\ FilesNext
        /\ UNCHANGED <<cacheVars, tableVars, feedVars, warmUpVars>>
     \/ /\ exercised = "feeds" /\ FeedsNext
        /\ UNCHANGED <<cacheVars, tableVars, historyVars, warmUpVars>>
     \/ /\ exercised = "news" /\ NewsNext
        /\ UNCHANGED <<cacheVars, tableVars, historyVars, feedVars>>
     \/ /\ exercised = "capital" /\ CapitalNext
        /\ UNCHANGED <<cacheVars, tableVars, historyVars, feedVars>>
  /\ now' <= Horizon[exercised]

Spec == Init /\ [][Next]_serviceVars

(* A feed that broke is read again within its longest pause, and a silence *)
(* of every feed is told within two rounds (main.py:227-286,               *)
(* tree_client.py:38-60).                                                  *)
FeedsStayUp == exercised = "feeds" => FeedsAreWatched

(* What a restart finds: the news back to the gap it looks for, a brief no *)
(* older than its refresh, the baseline the last process measured against  *)
(* (main.py:46-105, 141-224).                                              *)
ContextSurvives ==
  [](exercised = "news" => NothingMissed /\ BriefIsCurrent) /\ BaselineSurvives
=============================================================================
