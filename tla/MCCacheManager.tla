--------------------------- MODULE MCCacheManager ---------------------------
\* Constants for the runs of CacheManager are in the .cfg files.
EXTENDS CacheManager
=============================================================================
