-------------------------- MODULE MCMetricsSidecar --------------------------
EXTENDS MetricsSidecar

\* The sources share nothing but the refresher, which goes through them in
\* order: each is moved on its own.
MCTraffics == {{"ple"}, {"guard"}, {"pin"}}
=============================================================================
