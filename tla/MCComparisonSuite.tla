------------------------ MODULE MCComparisonSuite ------------------------
EXTENDS ComparisonSuite
MCSuites == {"background_nethra", "authority_strength"}
==========================================================================
