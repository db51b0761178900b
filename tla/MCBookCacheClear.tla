--------------------------- MODULE MCBookCacheClear ---------------------------
\* Two fixed files and two formats of statistics of which one is kept.
EXTENDS BookCacheClear
MCFixed == <<"progress.bin", "reader_settings.bin">>
MCStats == <<"stats_v6.bin", "stats_v5.bin">>
=============================================================================
