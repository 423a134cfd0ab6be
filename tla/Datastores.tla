------------------------------ MODULE Datastores ------------------------------
(***************************************************************************)
(* The coordinator's Redis caches and its InfluxDB client side by side, as *)
(* lifespan starts and stops them (coordinator/main.py): they share the    *)
(* event loop and are stopped one after the other.                         *)
(***************************************************************************)
EXTENDS RedisCache, TimeSeries

datastoreVars == <<cacheVars, seriesVars>>

Init == CacheInit /\ SeriesInit

Next ==
    \/ CacheStep /\ UNCHANGED seriesVars
    \/ SeriesStep /\ UNCHANGED cacheVars
    \/ StopCaches /\ UNCHANGED seriesVars
    \/ ~cacheRunning /\ StopSeries /\ UNCHANGED cacheVars

Spec == Init /\ [][Next]_datastoreVars /\ CacheFairness /\ SeriesFairness

\* The types; a hash has a time to live only while it exists, and a snapshot shows
\* one position of each node.
DatastoresTypeOK == CacheTypeOK /\ SeriesTypeOK
=============================================================================
